---------------------------- MODULE Spec2Model ----------------------------
(***************************************************************************)
(* A model of the parking-lot plate recognition system:                    *)
(*   - the single-active-vehicle tracking pipeline of main.py together     *)
(*     with the helpers of util.py it calls, and                           *)
(*   - the per-camera streaming orchestrator CameraManager of              *)
(*     api/core/camera_manager.py (asyncio tasks; a step of the model is   *)
(*     the code that runs between two suspension points).                  *)
(***************************************************************************)
EXTENDS Integers, Sequences, FiniteSets, TLC

\* None, where an integer identity is expected (tracker identities start at 1)
None == 0

Max2(a, b) == IF a >= b THEN a ELSE b

Range(s) == {s[i] : i \in 1..Len(s)}

(***************************************************************************)
(* Program constants                                                       *)
(***************************************************************************)
MIN_PLATE_LEN == 3
MIN_FRAMES_BUFFER == 7
\* PLATE_CONFIRM_THRESHOLD = 0.50, in hundredths
PLATE_CONFIRM_THRESHOLD == 50
\* fuzz.ratio(text, rep) > 88
SIMILARITY_THRESHOLD == 88
\* deque(maxlen=30)
HISTORY_MAXLEN == 30
MAX_LISTENERS_PER_CAMERA == 50
MAX_ACTIVE_CAMERAS == 20

(***************************************************************************)
(* Bounds of the model                                                     *)
(***************************************************************************)
\* frames read by the pipeline of main.py
MaxFrames == 2
\* plate boxes found in one vehicle crop
MaxPlates == 7
\* tracks reported by the tracker in one frame
MaxTracks == 2
\* tracker identities
NumIds == 2

(***************************************************************************)
(* util.py: texts are sequences of one-character strings                   *)
(***************************************************************************)
Digits == {"0", "1", "2", "3", "4", "5", "6", "7", "8", "9"}

Letters == {"A", "B", "C", "D", "E", "F", "G", "H", "I", "J", "K", "L", "M",
            "N", "O", "P", "Q", "R", "S", "T", "U", "V", "W", "X", "Y", "Z"}

\* the separators replace() removes (the middle dot is left out of the alphabet)
Separators == {" ", "-", "."}

\* code point order of the characters a text holds
Alphabet == <<" ", "-", ".", "0", "1", "2", "3", "4", "5", "6", "7", "8", "9",
              "A", "B", "C", "D", "E", "F", "G", "H", "I", "J", "K", "L", "M",
              "N", "O", "P", "Q", "R", "S", "T", "U", "V", "W", "X", "Y", "Z">>

Ord == [c \in Range(Alphabet) |-> CHOOSE i \in 1..Len(Alphabet) : Alphabet[i] = c]

DICT_CHAR_TO_INT == ("O" :> "0") @@ ("Q" :> "0") @@ ("D" :> "0") @@ ("I" :> "1") @@
                    ("L" :> "1") @@ ("B" :> "8") @@ ("S" :> "5") @@ ("G" :> "6") @@
                    ("Z" :> "2")

DICT_INT_TO_CHAR == ("0" :> "O") @@ ("1" :> "I") @@ ("2" :> "Z") @@ ("3" :> "B") @@
                    ("4" :> "A") @@ ("5" :> "S") @@ ("6" :> "G") @@ ("8" :> "B")

\* "L" a letter [A-Z], "D" a digit [0-9]
PLATE_PATTERNS == << <<"L", "L", "L", "D", "D", "D">>,
                     <<"L", "L", "L", "D", "D", "L">>,
                     <<"D", "D", "D", "L", "L", "L">>,
                     <<"L", "L", "D", "D", "D", "D">>,
                     <<"L", "L", "L", "D", "D">> >>

\* text.upper().replace(' ', '')...: the modelled texts hold no lower case
StripSeparators(text) == SelectSeq(text, LAMBDA c : c \notin Separators)

\* a pass that maps letters to digits in every position after the third
format_license_to_end(text) ==
    LET chars == StripSeparators(text)
    IN [i \in 1..Len(chars) |->
          IF i <= 3 /\ chars[i] \in DOMAIN DICT_INT_TO_CHAR
             THEN DICT_INT_TO_CHAR[chars[i]]
          ELSE IF i > 3 /\ chars[i] \in DOMAIN DICT_CHAR_TO_INT
             THEN DICT_CHAR_TO_INT[chars[i]]
          ELSE chars[i]]

format_license(text) ==
    LET chars == StripSeparators(text)
    IN [i \in 1..Len(chars) |->
          IF i <= 3 /\ chars[i] \in DOMAIN DICT_INT_TO_CHAR
             THEN DICT_INT_TO_CHAR[chars[i]]
          ELSE IF i > 3 /\ i <= 6 /\ chars[i] \in DOMAIN DICT_CHAR_TO_INT
             THEN DICT_CHAR_TO_INT[chars[i]]
          ELSE chars[i]]

MatchesPattern(text, pat) ==
    /\ Len(text) = Len(pat)
    /\ \A i \in 1..Len(pat) :
          IF pat[i] = "L" THEN text[i] \in Letters ELSE text[i] \in Digits

license_complies_format(text) ==
    /\ text # <<>>
    /\ \E k \in 1..Len(PLATE_PATTERNS) : MatchesPattern(text, PLATE_PATTERNS[k])

\* one row of the longest-common-subsequence table, left to right
RECURSIVE LcsRow(_, _, _, _, _)
LcsRow(prev, ch, b, j, acc) ==
    IF j > Len(b) THEN acc
    ELSE LET left == IF j = 1 THEN 0 ELSE acc[j - 1]
             diag == IF j = 1 THEN 0 ELSE prev[j - 1]
             cell == IF ch = b[j] THEN diag + 1 ELSE Max2(prev[j], left)
         IN LcsRow(prev, ch, b, j + 1, Append(acc, cell))

RECURSIVE LcsRows(_, _, _, _)
LcsRows(a, b, i, prev) ==
    IF i > Len(a) THEN prev
    ELSE LcsRows(a, b, i + 1, LcsRow(prev, a[i], b, 1, <<>>))

LcsLen(a, b) ==
    IF Len(a) = 0 \/ Len(b) = 0 THEN 0
    ELSE LcsRows(a, b, 1, [j \in 1..Len(b) |-> 0])[Len(b)]

\* a similarity test with the threshold 80
RatioAbove80(a, b, threshold) ==
    IF a = b THEN TRUE
    ELSE 200 * LcsLen(a, b) > 80 * (Len(a) + Len(b))

\* rapidfuzz fuzz.ratio(a, b) > threshold, ratio = 100 * 2 * lcs / (|a| + |b|)
\* (equal texts have ratio 100)
RatioAbove(a, b, threshold) ==
    IF a = b THEN 100 > threshold
    ELSE 200 * LcsLen(a, b) > threshold * (Len(a) + Len(b))

\* lexicographic order of Python strings
RECURSIVE TextLess(_, _)
TextLess(a, b) ==
    IF a = <<>> THEN b # <<>>
    ELSE IF b = <<>> THEN FALSE
    ELSE IF Head(a) = Head(b) THEN TextLess(Tail(a), Tail(b))
    ELSE Ord[Head(a)] < Ord[Head(b)]

RECURSIVE SumScores(_)
SumScores(cluster) ==
    IF cluster = <<>> THEN 0 ELSE Head(cluster)[2] + SumScores(Tail(cluster))

\* a cluster scored by its highest confidence
ClusterScorePeak(cluster) ==
    LET scores == {cluster[i][2] : i \in 1..Len(cluster)}
    IN CHOOSE m \in scores : \A x \in scores : x <= m

\* sum(x[1] for x in c) + len(c) * 0.2, in hundredths
ClusterScore(cluster) == SumScores(cluster) + 20 * Len(cluster)

\* index of the first cluster whose representative is similar to text, or 0
RECURSIVE FirstSimilar(_, _, _)
FirstSimilar(clusters, text, k) ==
    IF k > Len(clusters) THEN 0
    ELSE IF RatioAbove(text, clusters[k][1][1], SIMILARITY_THRESHOLD) THEN k
    ELSE FirstSimilar(clusters, text, k + 1)

RECURSIVE BuildClusters(_, _)
BuildClusters(normalized, clusters) ==
    IF normalized = <<>> THEN clusters
    ELSE LET item == Head(normalized)
             k == FirstSimilar(clusters, item[1], 1)
         IN BuildClusters(Tail(normalized),
               IF k = 0 THEN Append(clusters, <<item>>)
               ELSE [clusters EXCEPT ![k] = Append(@, item)])

\* a selection that takes the first cluster, whatever its score
BestClusterFirst(clusters, k, best) == clusters[1]

\* max(clusters, key=...): the first cluster of maximal score
RECURSIVE BestCluster(_, _, _)
BestCluster(clusters, k, best) ==
    IF k > Len(clusters) THEN clusters[best]
    ELSE BestCluster(clusters, k + 1,
            IF ClusterScore(clusters[k]) > ClusterScore(clusters[best]) THEN k ELSE best)

Occurrences(cluster, text) == SelectSeq(cluster, LAMBDA x : x[1] = text)

\* of the most frequent texts the one that comes first in the cluster
BestTextFirst(cluster) ==
    LET Count(t) == Len(SelectSeq(cluster, LAMBDA x : x[1] = t))
        top == {i \in 1..Len(cluster) :
                  \A j \in 1..Len(cluster) : Count(cluster[j][1]) <= Count(cluster[i][1])}
    IN cluster[CHOOSE i \in top : \A j \in top : i <= j][1]

\* max(freq.items(), key=lambda x: (x[1], x[0]))[0]
BestText(cluster) ==
    LET texts == {cluster[i][1] : i \in 1..Len(cluster)}
        Count(t) == Len(Occurrences(cluster, t))
    IN CHOOSE t \in texts :
          \A u \in texts \ {t} :
             \/ Count(u) < Count(t)
             \/ Count(u) = Count(t) /\ TextLess(u, t)

\* (None, 0.0); an absent text and an empty one are both falsy for the caller
NoResult == [text |-> <<>>, num |-> 0, den |-> 1]

\* buffer: sequence of <<text, score>>, score in hundredths; the result's
\* confidence np.mean(...) is the fraction num / den
\* line 152
Normalized(buffer) ==
    LET kept == SelectSeq(buffer, LAMBDA x : x[1] # <<>> /\ Len(x[1]) >= MIN_PLATE_LEN)
    IN [i \in 1..Len(kept) |-> <<format_license(kept[i][1]), kept[i][2]>>]

consolidar_buffer(buffer) ==
    LET normalized == Normalized(buffer)
    IN IF buffer = <<>> \/ normalized = <<>> THEN NoResult
       ELSE LET clusters == BuildClusters(normalized, <<>>)
                best_cluster == BestCluster(clusters, 1, 1)
                best_text == BestText(best_cluster)
                occ == Occurrences(best_cluster, best_text)
            IN [text |-> best_text, num |-> SumScores(occ), den |-> Len(occ)]

\* a track is [bbox |-> <<x1, y1, x2, y2>>, id |-> sort_id]
Area(bbox) == (bbox[3] - bbox[1]) * (bbox[4] - bbox[2])

\* a selection that takes the first track, whatever its area
FirstTrack(tracks, max_area, best_track) == Head(tracks)

RECURSIVE LargestTrack(_, _, _)
LargestTrack(tracks, max_area, best_track) ==
    IF tracks = <<>> THEN best_track
    ELSE IF Area(Head(tracks).bbox) > max_area
         THEN LargestTrack(Tail(tracks), Area(Head(tracks).bbox), Head(tracks))
         ELSE LargestTrack(Tail(tracks), max_area, best_track)

\* the result None of seleccionar_mas_cercano
NoTrack == [bbox |-> <<0, 0, 0, 0>>, id |-> None]

seleccionar_mas_cercano(tracks) ==
    IF tracks = <<>> THEN NoTrack ELSE LargestTrack(tracks, 0, NoTrack)

\* a classifier whose area thresholds include 500 and -500
infer_direction_inclusive(history, sign, min_samples, motion_threshold_px) ==
    IF Len(history) < min_samples THEN "indeterminado"
    ELSE LET dy == (history[Len(history)][3] - history[1][3]) * sign
             darea == history[Len(history)][2] - history[1][2]
             Abs(x) == IF x < 0 THEN -x ELSE x
         IN IF Abs(dy) < motion_threshold_px /\ Abs(darea) < 1 THEN "indeterminado"
            ELSE IF dy < 0 /\ darea > -1 THEN "entrada"
            ELSE IF dy > 0 /\ darea < 1 THEN "salida"
            ELSE IF darea >= 500 THEN "entrada"
            ELSE IF darea <= -500 THEN "salida"
            ELSE "indeterminado"

\* a motion sample is <<frame, area, center_y, timestamp>>
infer_direction_from_history(history, sign, min_samples, motion_threshold_px) ==
    IF Len(history) < min_samples THEN "indeterminado"
    ELSE LET dy == (history[Len(history)][3] - history[1][3]) * sign
             darea == history[Len(history)][2] - history[1][2]
             Abs(x) == IF x < 0 THEN -x ELSE x
         IN IF Abs(dy) < motion_threshold_px /\ Abs(darea) < 1 THEN "indeterminado"
            ELSE IF dy < 0 /\ darea > -1 THEN "entrada"
            ELSE IF dy > 0 /\ darea < 1 THEN "salida"
            ELSE IF darea > 500 THEN "entrada"
            ELSE IF darea < -500 THEN "salida"
            ELSE "indeterminado"


(***************************************************************************)
(* main.py: the tracking pipeline                                          *)
(***************************************************************************)
VARIABLES
    vehiculo_activo_id,   \* None or the active tracker identity
    vehiculo_estado,      \* sort_id -> [bbox, tipo, frame_inicial]
    movement_history,     \* sort_id -> sequence of motion samples
    lecturas_ocr,         \* sort_id -> sequence of <<text, score, frame>>
    frame_nmr,            \* frames read so far
    registros,            \* rows inserted into the table registros
    out,                  \* frame numbers written to the VideoWriter out
    last_tracks,          \* tracks: the tracker's result of the last iteration
    num_lecturas,         \* num_lecturas as line 151 last set it
    best_conf,            \* best_conf as line 154 last set it: <<num, den>>
    video_fin,            \* cap.read() has returned ret = False
    excepcion,            \* the call whose exception ended main(), "none" while none did
    consolidacion,        \* a call of consolidar_buffer: its argument, locals and result
    formatted,            \* a call of format_license: its argument and result
    inferred              \* a call of infer_direction_from_history: arguments, result

\* the output and the local variables of main() that the loop leaves behind
localVars == <<out, last_tracks, num_lecturas, best_conf>>

pipeVars == <<vehiculo_activo_id, vehiculo_estado, movement_history, lecturas_ocr,
              frame_nmr, registros, video_fin, excepcion, consolidacion, formatted,
              inferred,
              out, last_tracks, num_lecturas, best_conf>>

\* the state of the CameraManager (api/core/camera_manager.py), modelled below
VARIABLES
    active_tasks,   \* cam_id -> task
    listeners,      \* cam_id -> set of websockets
    stopping,       \* _stopping: set of cam_id
    tasks,          \* task -> the state of its _process_loop coroutine
    stop_calls,     \* the stop_camera calls suspended in wait_for
    last_call       \* the API call the last step made and its outcome, if it made one

camVars == <<active_tasks, listeners, stopping, tasks, stop_calls, last_call>>

\* the connections of /ws/camara-directa (api/app.py) that asked for a
\* camera URL and are open: pairs of the cam_id of the URL and the websocket
VARIABLE clients

vars == <<vehiculo_activo_id, vehiculo_estado, movement_history, lecturas_ocr,
          frame_nmr, registros, video_fin, excepcion, consolidacion, formatted,
              inferred,
          out, last_tracks, num_lecturas, best_conf,
          active_tasks, listeners, stopping, tasks, stop_calls, last_call,
          clients>>

\* frame.shape of the source
FrameW == 2
FrameH == 2

Ids == 1..NumIds

\* the tracker reports real coordinates: Scale steps to a pixel
Scale == 2

\* int(x) of line 123, on a coordinate in steps: truncation towards zero
ToInt(x) == IF x >= 0 THEN x \div Scale ELSE 0 - ((0 - x) \div Scale)

\* boxes the tracker reports: inside the frame (small, large), outside it,
\* and one narrower than a pixel
Boxes == {<<Scale, Scale, FrameW * Scale, FrameH * Scale>>,
          <<0, 0, FrameW * Scale, FrameH * Scale>>,
          <<0, 0, (FrameW + 1) * Scale, FrameH * Scale>>,
          <<Scale, 0, Scale + 1, FrameH * Scale>>}

Tracks == {<<>>} \cup
          UNION {{t \in [1..n -> [bbox : Boxes, id : Ids]] :
                    \A i, j \in 1..n : i # j => t[i].id # t[j].id} : n \in 1..MaxTracks}

\* re.sub(r'(.)\1+', r'\1', text): a run of one character becomes one
RECURSIVE Squeeze(_)
Squeeze(text) ==
    IF Len(text) <= 1 THEN text
    ELSE IF text[1] = text[2] THEN Squeeze(Tail(text))
    ELSE <<text[1]>> \o Squeeze(Tail(text))

extra_clean_license(text) ==
    format_license(Squeeze(SelectSeq(text, LAMBDA c : c \in Letters \cup Digits)))

\* (None, 0.0), written with the empty text
NoRead == << <<>>, 0 >>

\* the for loops of read_license_plate: the first detection whose cleaned
\* text complies with a plate format and whose score is above min_score
RECURSIVE FirstAccepted(_, _)
FirstAccepted(detections, min_score) ==
    IF detections = <<>> THEN NoRead
    ELSE LET clean == extra_clean_license(Head(detections)[1])
             score == Head(detections)[2]
         IN IF /\ Len(clean) >= MIN_PLATE_LEN
               /\ license_complies_format(clean)
               /\ score > min_score
            THEN <<clean, score>>
            ELSE FirstAccepted(Tail(detections), min_score)

\* detections, detections2: what reader.readtext returns for the crop and
\* for the enhanced crop, sequences of <<text, score>>, scores in hundredths
\* (empty for an empty crop or when readtext raises); the scores of
\* detections2 are multiples of 20, so that score * 0.95 is a whole number
read_license_plate(detections, detections2) ==
    LET first == FirstAccepted(detections, 45)
        second == FirstAccepted(detections2, 40)
    IN IF first # NoRead THEN first
       ELSE IF second # NoRead THEN <<second[1], (second[2] * 95) \div 100>>
       ELSE NoRead

\* what EasyOCR reads in one plate crop: a plate read well, read with a low
\* score, read only in the enhanced crop, and a text that is no plate
OcrResults ==
    {<< << << <<"A", "B", "C", "1", "2", "3">>, 90 >> >>, <<>> >>,
     << << << <<"A", "B", "C", "1", "2", "3">>, 48 >> >>, <<>> >>,
     << << << <<"A", "B", "C", "1", "2", "3">>, 30 >> >>,
        << << <<"A", "B", "C", "-", "1", "Z", "3", "3">>, 60 >> >> >>,
     << << << <<"1", "2", "3", "A", "B", "C">>, 90 >> >>, <<>> >>}

Readings == {read_license_plate(o[1], o[2]) : o \in OcrResults}

\* how many plates the plate model finds in one crop
PlateCounts == {0, 1, MaxPlates - 1, MaxPlates}

\* the OCR results of the plates of one frame: k times the same result
PlateBatches == {[i \in 1..k |-> r] : k \in PlateCounts, r \in Readings}

\* d[k] = v of a dict
Put(d, k, v) == [x \in DOMAIN d \cup {k} |-> IF x = k THEN v ELSE d[x]]

\* a pop that empties the dict
PopAll(d, k) == [x \in {} |-> 0]

\* a pop that removes nothing
PopKeeps(d, k) == d

\* d.pop(k, None)
Pop(d, k) == [x \in DOMAIN d \ {k} |-> d[x]]

\* an access that starts the entry afresh
TouchResets(d, k, default) == Put(d, k, default)

\* d[k] of a defaultdict: the entry is created when absent
Touch(d, k, default) == IF k \in DOMAIN d THEN d ELSE Put(d, k, default)

EmptyDict == [x \in {} |-> 0]

InitPipeline ==
    /\ vehiculo_activo_id = None
    /\ vehiculo_estado = EmptyDict
    /\ movement_history = EmptyDict
    /\ lecturas_ocr = EmptyDict
    /\ frame_nmr = 0
    /\ registros = <<>>
    /\ video_fin = FALSE
    /\ excepcion = "none"
    /\ out = <<>>
    /\ last_tracks = <<>>
    /\ num_lecturas = 0
    /\ best_conf = <<0, 1>>

\* an activation that does not look at the active vehicle
ActivatesAlways(activo, best_track) == best_track # NoTrack

\* lines 109-118: a vehicle becomes active only when none is
Activates(activo, best_track) == activo = None /\ best_track # NoTrack

\* a check that leaves out the right and the bottom edge of the frame
BboxInvalidLow(bbox) ==
    \/ ToInt(bbox[1]) < 0 \/ ToInt(bbox[2]) < 0
    \/ ToInt(bbox[1]) >= ToInt(bbox[3]) \/ ToInt(bbox[2]) >= ToInt(bbox[4])

\* lines 123-127
BboxInvalid(bbox) ==
    LET tx1 == ToInt(bbox[1])
        ty1 == ToInt(bbox[2])
        tx2 == ToInt(bbox[3])
        ty2 == ToInt(bbox[4])
    IN tx1 < 0 \/ ty1 < 0 \/ tx2 > FrameW \/ ty2 > FrameH \/ tx1 >= tx2 \/ ty1 >= ty2

\* lines 107-118: the active identity and its stored box once the activation
\* of the iteration is done; id = None when no vehicle is active
ActiveAfter(tracks) ==
    LET best_track == seleccionar_mas_cercano(tracks)
    IN IF Activates(vehiculo_activo_id, best_track)
       THEN [id |-> best_track.id, bbox |-> best_track.bbox]
       ELSE IF vehiculo_activo_id # None
            THEN [id |-> vehiculo_activo_id,
                  bbox |-> vehiculo_estado[vehiculo_activo_id].bbox]
            ELSE [id |-> None, bbox |-> NoTrack.bbox]

\* lines 128 and 134: continue, the rest of the iteration is skipped
Skips(tracks) ==
    ActiveAfter(tracks).id # None /\ BboxInvalid(ActiveAfter(tracks).bbox)

\* lines 121-139: plate detection runs for the active vehicle
Processes(tracks) ==
    ActiveAfter(tracks).id # None /\ ~BboxInvalid(ActiveAfter(tracks).bbox)

\* line 145: the readings of one frame that are appended
ValidReads(plates, n) ==
    LET ok == SelectSeq(plates, LAMBDA p : p[1] # <<>> /\ Len(p[1]) >= MIN_PLATE_LEN)
    IN [i \in 1..Len(ok) |-> <<ok[i][1], ok[i][2], n>>]

\* lines 117 and 138-146: the reading buffer of the active vehicle once the
\* readings of frame n are appended
Lecturas(tracks, plates, n) ==
    LET id == ActiveAfter(tracks).id
        old == IF vehiculo_activo_id = id /\ id \in DOMAIN lecturas_ocr
               THEN lecturas_ocr[id] ELSE <<>>
    IN old \o ValidReads(plates, n)

\* an acceptance that does not look at the confidence
AcceptsAnyConfidence(res) ==
    res.text # <<>> /\ license_complies_format(res.text)

\* line 157
Accepts(res) ==
    /\ res.text # <<>>
    /\ license_complies_format(res.text)
    /\ res.num >= PLATE_CONFIRM_THRESHOLD * res.den

\* a consolidation that leaves the vehicle active
ClearActiveSkipped(activo) == activo

\* line 184: the slot after a record was persisted for the vehicle activo
ClearActive(activo) == None

\* lines 104-184 for the frame number n: activation, the readings of the
\* frame, consolidation
Detect(n, tracks, plates) ==
    LET    best_track == seleccionar_mas_cercano(tracks)
           act == Activates(vehiculo_activo_id, best_track)
           activo == IF act THEN best_track.id ELSE vehiculo_activo_id
           estado == IF act
                     THEN Put(vehiculo_estado, activo,
                              [bbox |-> best_track.bbox, tipo |-> "desconocido",
                               frame_inicial |-> n])
                     ELSE vehiculo_estado
           lecturas == IF act THEN Put(lecturas_ocr, activo, <<>>) ELSE lecturas_ocr
       IN IF activo # None /\ activo \in DOMAIN estado /\ ~BboxInvalid(estado[activo].bbox)
          THEN LET lect0 == Touch(lecturas, activo, <<>>)
                   lect == [lect0 EXCEPT ![activo] = @ \o ValidReads(plates, n)]
               IN IF Len(lect[activo]) >= MIN_FRAMES_BUFFER
                  THEN LET res == consolidar_buffer(
                                     [i \in 1..Len(lect[activo]) |->
                                        <<lect[activo][i][1], lect[activo][i][2]>>])
                           hist == Touch(movement_history, activo, <<>>)
                           direction == infer_direction_from_history(hist[activo], 1, 6, 10)
                       IN IF Accepts(res)
                          THEN /\ registros' = Append(registros,
                                     [tipo_vehiculo |-> "car", placa_final |-> res.text,
                                      direccion |-> direction, id_sort_original |-> activo,
                                      frames_hasta_placa |-> n - estado[activo].frame_inicial])
                               /\ movement_history' = Pop(hist, activo)
                               /\ lecturas_ocr' = Pop(lect, activo)
                               /\ vehiculo_estado' = Pop(estado, activo)
                               /\ vehiculo_activo_id' = ClearActive(activo)
                          ELSE /\ movement_history' = hist
                               /\ lecturas_ocr' = lect
                               /\ vehiculo_estado' = estado
                               /\ vehiculo_activo_id' = activo
                               /\ UNCHANGED registros
                  ELSE /\ lecturas_ocr' = lect
                       /\ vehiculo_estado' = estado
                       /\ vehiculo_activo_id' = activo
                       /\ UNCHANGED <<movement_history, registros>>
          ELSE \* no active vehicle, or line 128: continue
               /\ lecturas_ocr' = lecturas
               /\ vehiculo_estado' = estado
               /\ vehiculo_activo_id' = activo
               /\ UNCHANGED <<movement_history, registros>>

\* the while loop of main() is running
InLoop == ~video_fin /\ excepcion = "none"

\* one iteration of the while loop of main(), lines 88-203
Frame(tracks, plates) ==
    /\ InLoop
    /\ frame_nmr < MaxFrames
    /\ frame_nmr' = frame_nmr + 1
    /\ UNCHANGED <<video_fin, excepcion, consolidacion, formatted, inferred>>
    /\ UNCHANGED camVars
    /\ UNCHANGED clients
    /\ Detect(frame_nmr + 1, tracks, plates)
    /\ last_tracks' = tracks
    /\ num_lecturas' = IF Processes(tracks)
                       THEN Len(Lecturas(tracks, plates, frame_nmr + 1))
                       ELSE num_lecturas
    /\ best_conf' = IF /\ Processes(tracks)
                       /\ Len(Lecturas(tracks, plates, frame_nmr + 1)) >= MIN_FRAMES_BUFFER
                    THEN LET lect == Lecturas(tracks, plates, frame_nmr + 1)
                             res == consolidar_buffer(
                                       [i \in 1..Len(lect) |-> <<lect[i][1], lect[i][2]>>])
                         IN <<res.num, res.den>>
                    ELSE best_conf
    /\ out' = IF Skips(tracks) THEN out ELSE Append(out, frame_nmr + 1)

\* an iteration in which coco_model (line 94), mot_tracker.update (104) or
\* lp_model (134) raises: the try of line 86 has no except clause, the
\* finally clause runs and the exception leaves main()
FrameRaises(call, tracks) ==
    /\ InLoop
    /\ frame_nmr < MaxFrames
    /\ frame_nmr' = frame_nmr + 1
    /\ excepcion' = call
    /\ UNCHANGED <<video_fin, movement_history, registros, consolidacion, formatted,
                   inferred>>
    /\ UNCHANGED <<out, num_lecturas, best_conf>>
    /\ UNCHANGED camVars
    /\ UNCHANGED clients
    /\ last_tracks' = IF call = "lp_model" THEN tracks ELSE last_tracks
    /\ IF call = "lp_model"
       THEN LET best_track == seleccionar_mas_cercano(tracks)
                act == Activates(vehiculo_activo_id, best_track)
                activo == IF act THEN best_track.id ELSE vehiculo_activo_id
                estado == IF act
                          THEN Put(vehiculo_estado, activo,
                                   [bbox |-> best_track.bbox, tipo |-> "desconocido",
                                    frame_inicial |-> frame_nmr + 1])
                          ELSE vehiculo_estado
            IN /\ activo # None /\ activo \in DOMAIN estado
               /\ ~BboxInvalid(estado[activo].bbox)
               /\ vehiculo_activo_id' = activo
               /\ vehiculo_estado' = estado
               /\ lecturas_ocr' = IF act THEN Put(lecturas_ocr, activo, <<>>)
                                         ELSE lecturas_ocr
       ELSE /\ tracks = <<>>
            /\ UNCHANGED <<vehiculo_activo_id, vehiculo_estado, lecturas_ocr>>

\* lines 88-91: the source is exhausted, the loop ends
EndOfVideo ==
    /\ InLoop
    /\ video_fin' = TRUE
    /\ UNCHANGED <<vehiculo_activo_id, vehiculo_estado, movement_history, lecturas_ocr,
                   frame_nmr, registros, excepcion, consolidacion, formatted, inferred>>
    /\ UNCHANGED localVars
    /\ UNCHANGED camVars
    /\ UNCHANGED clients

(***************************************************************************)
(* api/core/camera_manager.py: CameraManager                               *)
(*                                                                         *)
(* The methods are coroutines of one asyncio event loop: the code between  *)
(* two awaits runs without interleaving, so each action below is one such  *)
(* stretch.  A task (a processing loop) is suspended at one of its awaits, *)
(* named by its pc:                                                        *)
(*   "created"   create_task was called, the coroutine has not run yet     *)
(*   "sending"   await ws.send_bytes(data), line 149                       *)
(*   "sleep0"    await asyncio.sleep(0), line 165                          *)
(*   "reconnect" await asyncio.sleep(1.0), line 116                        *)
(*   "done"      the coroutine returned                                    *)
(*   "unopened"  the coroutine returned at line 100: the source not opened *)
(*   "cancelled" the task was cancelled by wait_for on its timeout         *)
(***************************************************************************)
\* frames a processing loop reads
MaxFrameN == 2
\* consecutive frames whose JPEG encoding fails
MaxEncodeFail == 1
\* stop_camera calls suspended at the same time
MaxStopCalls == 2
\* running loops of one camera, from which on start_camera is no longer
\* called for it
MaxLoops == 2
\* websockets of the specification of the broadcast
NumHandles == 2
\* cameras whose calls and loops interleave freely
NumCams == 1

Cams == 1..NumCams
Handles == 1..NumHandles
AllCams == 1..(MAX_ACTIVE_CAMERAS + 1)
AllHandles == 1..(MAX_LISTENERS_PER_CAMERA + 1)
\* a task is named by its camera and a number; the tasks that are run are
\* those of the cameras of Cams
TaskIds == Cams \X (1..(MaxLoops + MaxStopCalls))
Slots == 1..MaxStopCalls
\* the camera and the websocket of the specifications that follow one camera
\* or one subscriber
OneCam == {c \in Cams : \A d \in Cams : c <= d}
OneHandle == {w \in Handles : \A u \in Handles : w <= u}
OneCamTasks == {t \in TaskIds : t[1] \in OneCam}

NoCall == [op |-> "none", cam |-> 0, ws |-> 0, result |-> "none"]

Call(op, cam, ws, result) == [op |-> op, cam |-> cam, ws |-> ws, result |-> result]

InitCam ==
    /\ active_tasks = EmptyDict
    /\ listeners = EmptyDict
    /\ stopping = {}
    /\ tasks = EmptyDict
    /\ stop_calls = <<>>
    /\ last_call = NoCall
    /\ clients = {}

\* no call of consolidar_buffer is followed
NoConsolidation == [buffer |-> <<>>, clusters |-> <<>>, best_cluster |-> <<>>,
                    best |-> NoResult, done |-> FALSE]

\* no call of format_license is under way
NoFormat == [text |-> <<>>, result |-> <<>>, done |-> FALSE]

\* no call of infer_direction_from_history is under way
NoInference == [history |-> <<>>, sign |-> 1, result |-> "none", done |-> FALSE]

Init ==
    /\ InitPipeline /\ InitCam
    /\ consolidacion = NoConsolidation /\ formatted = NoFormat /\ inferred = NoInference

(***************************************************************************)
(* util.py: consolidar_buffer as a function of its argument                *)
(***************************************************************************)
\* readings in a buffer
MaxBuffer == 4

\* the readings of the buffers: texts with their scores in hundredths; one
\* text that format_license changes (ABC12B), one that is too short and one
\* that is similar to ABC123 without being equal to it (ABC1234, ratio 92.3)
BufferReadings ==
    {<< <<"A", "B", "C", "1", "2", "3">>, 90 >>,
     << <<"A", "B", "C", "1", "2", "8">>, 60 >>,
     << <<"A", "B", "C", "1", "2", "3">>, 85 >>,
     << <<"X", "Y", "Z", "9", "9", "9">>, 95 >>,
     << <<"A", "B", "C", "1", "2", "B">>, 70 >>,
     << <<"A", "B", "C", "1", "2", "3", "4">>, 80 >>,
     << <<"A", "B">>, 99 >>}

Buffers == UNION {[1..n -> BufferReadings] : n \in 0..MaxBuffer}

InitConsolidar ==
    /\ InitPipeline
    /\ InitCam
    /\ \E b \in Buffers : consolidacion = [NoConsolidation EXCEPT !.buffer = b]
    /\ formatted = NoFormat
    /\ inferred = NoInference

\* the call consolidar_buffer(buffer), lines 147-177
Consolidar ==
    /\ ~consolidacion.done
    /\ LET normalized == Normalized(consolidacion.buffer)
           clusters == BuildClusters(normalized, <<>>)
       IN consolidacion' =
             [buffer |-> consolidacion.buffer,
              clusters |-> clusters,
              best_cluster |-> IF clusters = <<>> THEN <<>>
                               ELSE BestCluster(clusters, 1, 1),
              best |-> consolidar_buffer(consolidacion.buffer),
              done |-> TRUE]
    /\ UNCHANGED <<vehiculo_activo_id, vehiculo_estado, movement_history, lecturas_ocr,
                   frame_nmr, registros, video_fin, excepcion, formatted, inferred>>
    /\ UNCHANGED localVars
    /\ UNCHANGED camVars
    /\ UNCHANGED clients

SpecConsolidar == InitConsolidar /\ [][Consolidar]_vars

(***************************************************************************)
(* format_license as a function of its argument                            *)
(***************************************************************************)
\* the longest text format_license is given
MaxText == 7

\* the characters of the texts: a digit that reads as a letter, a letter that
\* reads as a digit, a digit with no letter, a separator
TextChars == {"0", "O", "7", "-"}

Texts == UNION {[1..n -> TextChars] : n \in 0..MaxText}

InitFormat ==
    /\ InitPipeline
    /\ InitCam
    /\ consolidacion = NoConsolidation
    /\ \E t \in Texts : formatted = [NoFormat EXCEPT !.text = t]
    /\ inferred = NoInference

\* one call format_license(text)
Format ==
    /\ ~formatted.done
    /\ formatted' = [text |-> formatted.text,
                     result |-> format_license(formatted.text),
                     done |-> TRUE]
    /\ UNCHANGED <<vehiculo_activo_id, vehiculo_estado, movement_history, lecturas_ocr,
                   frame_nmr, registros, video_fin, excepcion, consolidacion, inferred>>
    /\ UNCHANGED localVars
    /\ UNCHANGED camVars
    /\ UNCHANGED clients

SpecFormat == InitFormat /\ [][Format]_vars

(***************************************************************************)
(* infer_direction_from_history as a function of its arguments             *)
(***************************************************************************)
\* the longest history infer_direction_from_history is given
MaxSamples == 7

\* the first sample of the histories: <<frame, area, center_y, timestamp>>
FirstSample == <<1, 1000, 300, 0>>

\* changes of the area and of the vertical center from the first sample to
\* the last: none, below, at and above the thresholds 1, 10 and 500
AreaChanges == {0 - 600, 0 - 501, 0 - 500, 0 - 1, 0, 1, 500, 501, 600}
CenterChanges == {0 - 50, 0 - 10, 0 - 9, 0, 9, 10, 50}

\* a history of n samples: the last one differs from the first by the
\* changes, the ones between them are where the first one is
Histories ==
    {[i \in 1..n |-> IF i = n /\ n > 1
                     THEN <<i, FirstSample[2] + da, FirstSample[3] + dy, i - 1>>
                     ELSE <<i, FirstSample[2], FirstSample[3], i - 1>>] :
        n \in 0..MaxSamples, da \in AreaChanges, dy \in CenterChanges}

InitDirection ==
    /\ InitPipeline
    /\ InitCam
    /\ consolidacion = NoConsolidation
    /\ formatted = NoFormat
    /\ \E h \in Histories, sign \in {1, 0 - 1} :
          inferred = [NoInference EXCEPT !.history = h, !.sign = sign]

\* one call infer_direction_from_history(history, sign)
InferDirection ==
    /\ ~inferred.done
    /\ inferred' = [history |-> inferred.history,
                    sign |-> inferred.sign,
                    result |-> infer_direction_from_history(inferred.history,
                                                            inferred.sign, 6, 10),
                    done |-> TRUE]
    /\ UNCHANGED <<vehiculo_activo_id, vehiculo_estado, movement_history, lecturas_ocr,
                   frame_nmr, registros, video_fin, excepcion, consolidacion, formatted>>
    /\ UNCHANGED localVars
    /\ UNCHANGED camVars
    /\ UNCHANGED clients

SpecDirection == InitDirection /\ [][InferDirection]_vars

Finished(task) == task.pc \in {"done", "unopened", "cancelled"}

Running(t) == t \in DOMAIN tasks /\ ~Finished(tasks[t])

RunningLoops == {t \in DOMAIN tasks : Running(t)}

LoopsOf(c) == {t \in RunningLoops : tasks[t].cam = c}

Registered(t) == \E c \in DOMAIN active_tasks : active_tasks[c] = t

Orphans == {t \in RunningLoops : ~Registered(t)}

\* a task object lives while it runs or something refers to it
Collect(tk, act, calls) ==
    LET keep == {t \in DOMAIN tk :
                   \/ ~Finished(tk[t])
                   \/ \E c \in DOMAIN act : act[c] = t
                   \/ \E k \in 1..Len(calls) : calls[k].task = t}
    IN [t \in keep |-> tk[t]]

\* cap: the capture object the loop holds; each reopening (line 118) makes
\* a new one in place of the one released (two objects are told apart);
\* stop_seen: history of the loop, the stop flag of its camera was set
\* while it ran
NewTask(c) == [cam |-> c, pc |-> "created", frame_n |-> 0, cap |-> 0,
               snapshot |-> {}, sent |-> {}, dead |-> {}, stop_seen |-> FALSE]

\* a coroutine that has ended holds no locals
Ended(task, how) == [cam |-> task.cam, pc |-> how, frame_n |-> 0, cap |-> 0,
                     snapshot |-> {}, sent |-> {}, dead |-> {}, stop_seen |-> FALSE]

FreshTask(c) ==
    <<c, CHOOSE n \in 1..(MaxLoops + MaxStopCalls) :
            /\ <<c, n>> \notin DOMAIN tasks
            /\ \A m \in 1..(n - 1) : <<c, m>> \in DOMAIN tasks>>

\* line 35
AtCapacity == Cardinality(DOMAIN active_tasks) >= MAX_ACTIVE_CAMERAS

\* a start_camera that subscribes the websocket it is passed
start_camera_subscribes(c, w) ==
    /\ IF AtCapacity
       THEN /\ last_call' = Call("start_camera", c, 0, "error")
            /\ UNCHANGED <<active_tasks, tasks, listeners>>
       ELSE /\ IF c \notin DOMAIN active_tasks
               THEN /\ active_tasks' = Put(active_tasks, c, FreshTask(c))
                    /\ tasks' = Put(tasks, FreshTask(c), NewTask(c))
                    /\ last_call' = Call("start_camera", c, 0, "created")
               ELSE /\ last_call' = Call("start_camera", c, 0, "exists")
                    /\ UNCHANGED <<active_tasks, tasks>>
            /\ listeners' = IF w = 0 THEN listeners
                            ELSE Put(listeners, c,
                                     (IF c \in DOMAIN listeners THEN listeners[c] ELSE {})
                                        \cup {w})
    /\ UNCHANGED <<stopping, stop_calls>>
    /\ UNCHANGED pipeVars

\* start_camera, lines 30-43 (no await: one step); no line reads the
\* argument websocket, here w
start_camera(c, w) ==
    /\ IF AtCapacity
       THEN /\ last_call' = Call("start_camera", c, 0, "error")
            /\ UNCHANGED <<active_tasks, tasks>>
       ELSE IF c \notin DOMAIN active_tasks
       THEN /\ active_tasks' = Put(active_tasks, c, FreshTask(c))
            /\ tasks' = Put(tasks, FreshTask(c), NewTask(c))
            /\ last_call' = Call("start_camera", c, 0, "created")
       ELSE /\ last_call' = Call("start_camera", c, 0, "exists")
            /\ UNCHANGED <<active_tasks, tasks>>
    /\ UNCHANGED <<listeners, stopping, stop_calls>>
    /\ UNCHANGED pipeVars

\* a call of start_camera that passes no websocket (the default None)
StartCamera(c) ==
    /\ start_camera(c, 0)
    /\ UNCHANGED clients

\* a ceiling that lets one subscriber more in
ListenersFullLate(c) ==
    Cardinality(IF c \in DOMAIN listeners THEN listeners[c] ELSE {}) > MAX_LISTENERS_PER_CAMERA

\* line 74
ListenersFull(c) ==
    Cardinality(IF c \in DOMAIN listeners THEN listeners[c] ELSE {}) >= MAX_LISTENERS_PER_CAMERA

\* register_listener, lines 68-79 (no await: one step)
RegisterListener(c, w) ==
    /\ IF ListenersFull(c)
       THEN /\ last_call' = Call("register_listener", c, w, "error")
            /\ UNCHANGED listeners
       ELSE /\ listeners' = Put(listeners, c,
                                (IF c \in DOMAIN listeners THEN listeners[c] ELSE {}) \cup {w})
            /\ last_call' = Call("register_listener", c, w, "added")
    /\ UNCHANGED <<active_tasks, stopping, tasks, stop_calls>>
    /\ UNCHANGED pipeVars
    /\ UNCHANGED clients

\* the body of unregister_listener, lines 85-87, on the dict d
Unregistered(d, c, w) ==
    IF c \in DOMAIN d /\ w \in d[c] THEN [d EXCEPT ![c] = @ \ {w}] ELSE d

\* unregister_listener, lines 81-88 (no await: one step)
UnregisterListener(c, w) ==
    /\ listeners' = Unregistered(listeners, c, w)
    /\ last_call' = Call("unregister_listener", c, w, "returned")
    /\ UNCHANGED <<active_tasks, stopping, tasks, stop_calls>>
    /\ UNCHANGED pipeVars
    /\ UNCHANGED clients

\* stop_camera, lines 45-52: up to await asyncio.wait_for(...), or, with no
\* registered task, the whole call (lines 49, 59-60)
stop_camera(c) ==
    /\ IF c \in DOMAIN active_tasks
       THEN /\ stopping' = stopping \cup {c}
            /\ stop_calls' = Append(stop_calls,
                                    [cam |-> c, task |-> active_tasks[c], timed_out |-> FALSE])
            /\ last_call' = Call("stop_camera", c, 0, "waiting")
            /\ tasks' = [t \in DOMAIN tasks |->
                            IF tasks[t].cam = c /\ ~Finished(tasks[t])
                            THEN [tasks[t] EXCEPT !.stop_seen = TRUE] ELSE tasks[t]]
            /\ UNCHANGED listeners
       ELSE /\ listeners' = Pop(listeners, c)
            /\ last_call' = Call("stop_camera", c, 0, "idle")
            /\ UNCHANGED <<stopping, stop_calls, tasks>>
    /\ UNCHANGED active_tasks
    /\ UNCHANGED pipeVars

\* a call of stop_camera by a caller that holds no connection
StopCamera(c) ==
    /\ stop_camera(c)
    /\ UNCHANGED clients

\* the pcs at which a task can receive the cancellation of wait_for
Suspended(task) == task.pc \in {"sending", "sleep0", "reconnect"}

\* a wait without a timeout
NoTimeout(k) == FALSE

\* wait_for, line 52: the 5 s pass before the task ends; wait_for cancels the
\* task, which ends at its await (CancelledError is no Exception: lines 150
\* and 167 do not catch it)
TimeoutEnabled(k) ==
    /\ k \in 1..Len(stop_calls)
    /\ ~stop_calls[k].timed_out
    /\ Suspended(tasks[stop_calls[k].task])

StopTimeout(k) ==
    /\ TimeoutEnabled(k)
    /\ tasks' = [tasks EXCEPT ![stop_calls[k].task] = Ended(@, "cancelled")]
    /\ stop_calls' = [stop_calls EXCEPT ![k].timed_out = TRUE]
    /\ last_call' = NoCall
    /\ UNCHANGED <<active_tasks, listeners, stopping>>
    /\ UNCHANGED pipeVars
    /\ UNCHANGED clients

\* a finally clause that leaves the entry
AfterPopKeeps(act, c) == act

\* line 56: what the finally clause leaves of active_tasks
AfterPop(act, c) == Pop(act, c)

\* stop_camera, lines 53-60: wait_for has ended because the task has.  The
\* finally clause runs; then the call returns, unless the task was cancelled
\* by the timeout of another call: this call's await raises CancelledError,
\* which line 53 does not catch, and lines 59-60 are skipped
StopResume(k) ==
    /\ k \in 1..Len(stop_calls)
    /\ Finished(tasks[stop_calls[k].task])
    /\ LET call == stop_calls[k]
           c == call.cam
           raised == tasks[call.task].pc = "cancelled" /\ ~call.timed_out
           act == AfterPop(active_tasks, c)
           calls == [i \in 1..(Len(stop_calls) - 1) |->
                        IF i < k THEN stop_calls[i] ELSE stop_calls[i + 1]]
       IN /\ active_tasks' = act
          /\ stopping' = stopping \ {c}
          /\ stop_calls' = calls
          /\ tasks' = Collect(tasks, act, calls)
          /\ listeners' = IF raised THEN listeners ELSE Pop(listeners, c)
          /\ last_call' = Call("stop_camera", c, 0,
                               IF raised THEN "cancelled"
                               ELSE IF call.timed_out THEN "timeout" ELSE "stopped")
    /\ UNCHANGED pipeVars
    /\ UNCHANGED clients

\* one pass from the top of the while loop (line 107) to the next await:
\* skips frames are read whose encoding fails (line 133: continue), then a
\* read fails (ret = FALSE) or a frame is read, encoded and its broadcast begun
IterTop(task, skips, ret) ==
    IF task.cam \in stopping THEN Ended(task, "done")
    ELSE IF ~ret
    THEN [task EXCEPT !.pc = "reconnect", !.frame_n = @ + skips,
                      !.snapshot = {}, !.sent = {}, !.dead = {}]
    ELSE LET snap == IF task.cam \in DOMAIN listeners THEN listeners[task.cam] ELSE {}
         IN [task EXCEPT !.pc = IF snap = {} THEN "sleep0" ELSE "sending",
                         !.frame_n = @ + skips + 1,
                         !.snapshot = snap, !.sent = {}, !.dead = {}]

\* a loop that goes on to read a frame from a source that is not open
OpenFailedReads(task) == IterTop(task, 0, TRUE)

\* lines 98-100 and 119-121: the source is not open; at the start the
\* coroutine returns before its try statement, after a pause it leaves the
\* while loop
OpenFailed(task) == Ended(task, IF task.pc = "created" THEN "unopened" ELSE "done")

\* lines 117-118, after the pause of line 116: the capture is released and
\* the source is opened again
Reopened(task) == IF task.pc = "reconnect" THEN [task EXCEPT !.cap = 1 - @] ELSE task

\* _process_loop from its start (lines 94-103), from line 165 or from line
\* 116 (117-122) to its next await or its end: what it does to the state of
\* the CameraManager
LoopRunCam(t, opened, skips, ret) ==
    /\ t \in DOMAIN tasks
    /\ tasks[t].pc \in {"created", "sleep0", "reconnect"}
    /\ tasks[t].pc = "sleep0" => opened
    /\ tasks[t].frame_n + skips + (IF ret THEN 1 ELSE 0) <= MaxFrameN
    /\ LET after == IF opened THEN IterTop(Reopened(tasks[t]), skips, ret)
                    ELSE OpenFailed(tasks[t])
       IN tasks' = Collect([tasks EXCEPT ![t] = after], active_tasks, stop_calls)
    /\ last_call' = NoCall
    /\ UNCHANGED <<active_tasks, listeners, stopping, stop_calls>>
    /\ UNCHANGED clients

\* the step of the loop when the import of detection.py (lines 10-15)
\* failed: procesar_frame draws a caption on a copy of the frame (28-32)
LoopRun(t, opened, skips, ret) ==
    /\ LoopRunCam(t, opened, skips, ret)
    /\ UNCHANGED pipeVars

\* detectar_frame of the module main, which detection.py imports (line 13)
\* and calls with the frame and its number only (line 23): src/main.py
\* defines no such function; it is taken to do the work of one iteration
\* of the pipeline on the module's structures (main.py 63-66)
detectar_frame(frame_nmr_arg, tracks, plates) == Detect(frame_nmr_arg, tracks, plates)

\* the step of the loop when the import succeeded: one frame is read and
\* passed to detectar_frame (camera_manager.py 124-127, detection.py 21-24)
LoopDetect(t, tracks, plates) ==
    /\ LoopRunCam(t, TRUE, 0, TRUE)
    /\ tasks[t].cam \notin stopping
    /\ detectar_frame(tasks[t].frame_n + 1, tracks, plates)
    /\ UNCHANGED <<frame_nmr, video_fin, excepcion, consolidacion, formatted, inferred>>
    /\ UNCHANGED localVars

\* the websockets of the snapshot not yet sent to; those above NumHandles
\* are taken in ascending order
Pending(task) == task.snapshot \ (task.sent \cup task.dead)

NextInOrder(task, w) ==
    /\ w \in task.snapshot /\ w \notin task.sent /\ w \notin task.dead
    /\ w \in Handles \/ \A u \in Pending(task) : u \in Handles \/ w <= u

\* an eviction that writes back what is left of the copy the broadcast
\* iterated, here nothing once a send failed
EvictedAll(d, c, dead) ==
    IF c \in DOMAIN d THEN [d EXCEPT ![c] = IF dead = {} THEN @ ELSE {}] ELSE d

\* a broadcast that unregisters nobody
EvictedNone(d, c, dead) == d

\* lines 155-159: the dead websockets are unregistered
Evicted(d, c, dead) ==
    IF c \in DOMAIN d THEN [d EXCEPT ![c] = @ \ dead] ELSE d

\* a send whose failure escapes the for loop and ends the coroutine
AfterSendAborts(task, w, ok) ==
    IF ok
    THEN [task EXCEPT !.sent = @ \cup {w},
                      !.pc = IF Pending(task) = {w} THEN "sleep0" ELSE "sending"]
    ELSE [task EXCEPT !.dead = @ \cup {w}, !.pc = "done"]

\* lines 147-152: the send to w ends, ok or by raising; the exception is
\* caught and w is collected; the for loop goes on to the next websocket or,
\* after the last one, to line 155
AfterSend(task, w, ok) ==
    [task EXCEPT !.sent = IF ok THEN @ \cup {w} ELSE @,
                 !.dead = IF ok THEN @ ELSE @ \cup {w},
                 !.pc = IF Pending(task) = {w} THEN "sleep0" ELSE "sending"]

\* lines 147-165: one send ends; the next one begins or, after the last one,
\* the dead websockets are unregistered and the loop yields at line 165
LoopSend(t, w, ok) ==
    /\ t \in DOMAIN tasks
    /\ tasks[t].pc = "sending"
    /\ NextInOrder(tasks[t], w)
    /\ LET after == AfterSend(tasks[t], w, ok)
       IN /\ tasks' = [tasks EXCEPT ![t] = after]
          /\ listeners' = IF after.pc = "sleep0"
                          THEN Evicted(listeners, after.cam, after.dead)
                          ELSE listeners
    /\ last_call' = NoCall
    /\ UNCHANGED <<active_tasks, stopping, stop_calls>>
    /\ UNCHANGED pipeVars
    /\ UNCHANGED clients

NextPipeline ==
    \/ \E tracks \in Tracks, plates \in PlateBatches : Frame(tracks, plates)
    \/ \E call \in {"coco_model", "mot_tracker", "lp_model"}, tracks \in Tracks :
          FrameRaises(call, tracks)
    \/ EndOfVideo

SpecPipeline == Init /\ [][NextPipeline]_vars

\* what the callers do not do: they start no camera that has MaxLoops loops
\* and suspend no more than MaxStopCalls calls of stop_camera
MayStart(c) == Cardinality(LoopsOf(c)) < MaxLoops

MayStop == Len(stop_calls) < MaxStopCalls

\* the life cycle of one camera with one subscriber: calls of stop_camera
\* overlap, loops end by themselves, are stopped or cancelled
NextCam ==
    \/ \E c \in Cams : MayStart(c) /\ StartCamera(c)
    \/ \E c \in Cams : MayStop /\ StopCamera(c)
    \/ \E k \in Slots : StopTimeout(k)
    \/ \E k \in Slots : StopResume(k)
    \/ \E c \in Cams, w \in OneHandle : RegisterListener(c, w)
    \/ \E c \in Cams, w \in OneHandle : UnregisterListener(c, w)
    \/ \E t \in TaskIds, opened \in BOOLEAN, skips \in 0..MaxEncodeFail, ret \in BOOLEAN :
          LoopRun(t, opened, skips, ret)
    \/ \E t \in TaskIds, w \in OneHandle, ok \in BOOLEAN : LoopSend(t, w, ok)

SpecCam == Init /\ [][NextCam]_vars

\* the event loop runs every task that is ready (a task just created, or
\* resumed after its sleep), the timer of wait_for fires, and a call whose
\* wait has ended is resumed; a send may never end
StopTaskIds == OneCam \X (1..(MaxStopCalls + 1))

FairCam ==
    /\ \A t \in StopTaskIds :
          WF_vars(\E opened \in BOOLEAN, skips \in 0..MaxEncodeFail, ret \in BOOLEAN :
                     LoopRun(t, opened, skips, ret))
    /\ \A k \in Slots : WF_vars(StopTimeout(k))
    /\ \A k \in Slots : WF_vars(StopResume(k))

\* stop_camera: overlapping calls on a camera that has one loop when it is
\* started
NextStop ==
    \/ \E c \in OneCam : LoopsOf(c) = {} /\ StartCamera(c)
    \/ \E c \in OneCam : MayStop /\ StopCamera(c)
    \/ \E k \in Slots : StopTimeout(k)
    \/ \E k \in Slots : StopResume(k)
    \/ \E c \in OneCam, w \in OneHandle : RegisterListener(c, w)
    \/ \E c \in OneCam, w \in OneHandle : UnregisterListener(c, w)
    \/ \E t \in OneCamTasks, opened \in BOOLEAN, skips \in 0..MaxEncodeFail, ret \in BOOLEAN :
          LoopRun(t, opened, skips, ret)
    \/ \E t \in OneCamTasks, w \in OneHandle, ok \in BOOLEAN : LoopSend(t, w, ok)

SpecStop == Init /\ [][NextStop]_vars /\ FairCam

\* the cameras above NumCams are started one after the other and left alone:
\* their loops stay where create_task left them
FillerCams == AllCams \ Cams

FillerCamTurn(c) ==
    /\ c \notin DOMAIN active_tasks
    /\ \A d \in FillerCams : d < c => d \in DOMAIN active_tasks

\* start_camera up to the ceiling of MAX_ACTIVE_CAMERAS, while a camera is
\* started and stopped by overlapping calls
NextCapacity ==
    \/ \E c \in Cams : LoopsOf(c) = {} /\ StartCamera(c)
    \/ \E c \in FillerCams : FillerCamTurn(c) /\ StartCamera(c)
    \/ \E c \in Cams : MayStop /\ StopCamera(c)
    \/ \E k \in Slots : StopTimeout(k)
    \/ \E k \in Slots : StopResume(k)
    \/ \E t \in TaskIds, opened \in BOOLEAN, skips \in 0..MaxEncodeFail, ret \in BOOLEAN :
          LoopRun(t, opened, skips, ret)

SpecCapacity == Init /\ [][NextCapacity]_vars

\* two cameras whose frames are passed to detectar_frame
SharedCams == {c \in AllCams : c <= 2}

SharedTasks == SharedCams \X {1}

\* each camera sees at most one vehicle
SharedTracks == {tracks \in Tracks : Len(tracks) <= 1}

\* the frames that the two loops have read
SharedFrames ==
    LET n(t) == IF t \in DOMAIN tasks THEN tasks[t].frame_n ELSE 0
    IN n(<<1, 1>>) + n(<<2, 1>>)

NextShared ==
    \/ \E c \in SharedCams : c \notin DOMAIN active_tasks /\ StartCamera(c)
    \/ \E t \in SharedTasks, tracks \in SharedTracks, plates \in PlateBatches :
          SharedFrames < MaxFrames /\ LoopDetect(t, tracks, plates)

SpecShared == Init /\ [][NextShared]_vars

\* the websockets other than the first subscribe one after the other and
\* unsubscribe in the reverse order, while no loop of the camera runs; their
\* sends succeed
FillerHandles == AllHandles \ OneHandle

SubscribersOf(c) == IF c \in DOMAIN listeners THEN listeners[c] ELSE {}

FillerJoins(c, w) ==
    /\ LoopsOf(c) = {}
    /\ w \notin SubscribersOf(c)
    /\ \A u \in FillerHandles : u < w => u \in SubscribersOf(c)

FillerLeaves(c, w) ==
    /\ LoopsOf(c) = {}
    /\ w \in SubscribersOf(c)
    /\ \A u \in FillerHandles : u > w => u \notin SubscribersOf(c)

\* the camera is started when it is one subscriber short of the ceiling
NearlyFull(c) == Cardinality(SubscribersOf(c)) >= MAX_LISTENERS_PER_CAMERA - 1

\* register_listener up to the ceiling of MAX_LISTENERS_PER_CAMERA, with the
\* broadcasts of the camera and its stop
NextListeners ==
    \/ \E c \in OneCam : LoopsOf(c) = {} /\ NearlyFull(c) /\ StartCamera(c)
    \/ \E c \in OneCam : stop_calls = <<>> /\ StopCamera(c)
    \/ \E k \in Slots : StopTimeout(k)
    \/ \E k \in Slots : StopResume(k)
    \/ \E c \in OneCam, w \in OneHandle : RegisterListener(c, w)
    \/ \E c \in OneCam, w \in FillerHandles : FillerJoins(c, w) /\ RegisterListener(c, w)
    \/ \E c \in OneCam, w \in OneHandle : UnregisterListener(c, w)
    \/ \E c \in OneCam, w \in FillerHandles : FillerLeaves(c, w) /\ UnregisterListener(c, w)
    \/ \E t \in OneCamTasks, opened \in BOOLEAN, skips \in 0..MaxEncodeFail, ret \in BOOLEAN :
          LoopRun(t, opened, skips, ret)
    \/ \E t \in OneCamTasks, w \in AllHandles, ok \in BOOLEAN :
          (ok \/ w \in OneHandle) /\ LoopSend(t, w, ok)

SpecListeners == Init /\ [][NextListeners]_vars

\* the broadcast of one loop to NumHandles subscribers that come and go; the
\* camera is stopped by one call at a time
NextBroadcast ==
    \/ \E c \in OneCam : LoopsOf(c) = {} /\ StartCamera(c)
    \/ \E c \in OneCam : stop_calls = <<>> /\ StopCamera(c)
    \/ \E k \in Slots : StopTimeout(k)
    \/ \E k \in Slots : StopResume(k)
    \/ \E c \in OneCam, w \in Handles : RegisterListener(c, w)
    \/ \E c \in OneCam, w \in Handles : UnregisterListener(c, w)
    \/ \E t \in OneCamTasks, opened \in BOOLEAN, skips \in 0..MaxEncodeFail, ret \in BOOLEAN :
          LoopRun(t, opened, skips, ret)
    \/ \E t \in OneCamTasks, w \in Handles, ok \in BOOLEAN : LoopSend(t, w, ok)

SpecBroadcast == Init /\ [][NextBroadcast]_vars

(***************************************************************************)
(* The tracking pipeline (SpecPipeline)                                    *)
(***************************************************************************)

\* C1: after every frame at most one vehicle is active: vehiculo_estado,
\* lecturas_ocr and movement_history hold entries for no identity other than
\* vehiculo_activo_id, hence at most one each, and all three are empty when
\* vehiculo_activo_id is None
C1_OneActiveVehicle ==
    LET owner == {vehiculo_activo_id} \ {None}
    IN /\ DOMAIN vehiculo_estado \subseteq owner
       /\ DOMAIN lecturas_ocr \subseteq owner
       /\ DOMAIN movement_history \subseteq owner
       /\ Cardinality(DOMAIN vehiculo_estado) <= 1

\* a second vehicle is active after the first one was recorded, with readings
\* and a motion history of its own
C1_Witness ==
    /\ vehiculo_activo_id # None
    /\ registros # <<>>
    /\ DOMAIN vehiculo_estado = {vehiculo_activo_id}
    /\ vehiculo_activo_id \in DOMAIN lecturas_ocr
    /\ Len(lecturas_ocr[vehiculo_activo_id]) >= MIN_FRAMES_BUFFER
    /\ DOMAIN movement_history = {vehiculo_activo_id}

\* C2: a frame makes an identity active only if no vehicle was active when
\* the frame began: whatever the tracks of the frame are, an active vehicle
\* is never replaced by another identity
C2_ActivationOnlyWhenNone ==
    [][(vehiculo_activo_id' # vehiculo_activo_id /\ vehiculo_activo_id' # None)
          => vehiculo_activo_id = None]_vars

\* a frame was processed while a vehicle was already active
C2_Witness ==
    /\ vehiculo_activo_id # None
    /\ vehiculo_activo_id \in DOMAIN vehiculo_estado
    /\ frame_nmr > vehiculo_estado[vehiculo_activo_id].frame_inicial

(***************************************************************************)
(* The ceilings (SpecCapacity, SpecListeners)                              *)
(***************************************************************************)

\* C3: a start_camera call made while MAX_ACTIVE_CAMERAS loops run is
\* rejected, creates no loop and leaves active_tasks, listeners and _stopping
\* as they are; never more than MAX_ACTIVE_CAMERAS loops run
C3_CameraCeiling ==
    /\ [][(last_call'.op = "start_camera"
             /\ Cardinality(RunningLoops) >= MAX_ACTIVE_CAMERAS)
            => /\ last_call'.result = "error"
               /\ UNCHANGED <<active_tasks, listeners, stopping, tasks>>]_vars
    /\ [](Cardinality(RunningLoops) <= MAX_ACTIVE_CAMERAS)

\* C4: a register_listener call for a camera that has
\* MAX_LISTENERS_PER_CAMERA subscribers is rejected and leaves the
\* subscribers as they are; no camera ever has more subscribers than that
C4_ListenerCeiling ==
    /\ [][(last_call'.op = "register_listener"
             /\ Cardinality(SubscribersOf(last_call'.cam)) >= MAX_LISTENERS_PER_CAMERA)
            => /\ last_call'.result = "error"
               /\ listeners' = listeners]_vars
    /\ [](\A c \in DOMAIN listeners : Cardinality(listeners[c]) <= MAX_LISTENERS_PER_CAMERA)

\* a websocket is rejected by a camera that has MAX_LISTENERS_PER_CAMERA
\* subscribers, in the middle of a broadcast
C4_Witness ==
    /\ last_call.op = "register_listener"
    /\ last_call.result = "error"
    /\ Cardinality(SubscribersOf(last_call.cam)) = MAX_LISTENERS_PER_CAMERA
    /\ \E t \in DOMAIN tasks : tasks[t].cam = last_call.cam /\ tasks[t].pc = "sending"

(***************************************************************************)
(* The life cycle of a camera (SpecCam, SpecCamFair)                       *)
(***************************************************************************)
StartedCamera(call, c) == call.op = "start_camera" /\ call.cam = c

\* C5: a start_camera call for a camera that has a running loop creates no
\* second loop and leaves the registered task as it is; no two loops of one
\* camera send the same frame index to the same subscriber
C5_IdempotentStart ==
    /\ [][\A c \in Cams :
            (StartedCamera(last_call', c) /\ LoopsOf(c) # {})
               => /\ LoopsOf(c)' = LoopsOf(c)
                  /\ c \in DOMAIN active_tasks =>
                        (c \in DOMAIN active_tasks' /\ active_tasks'[c] = active_tasks[c])]_vars
    /\ [](\A t, u \in DOMAIN tasks :
            (t # u /\ tasks[t].cam = tasks[u].cam /\ tasks[t].frame_n = tasks[u].frame_n)
               => tasks[t].sent \cap tasks[u].sent = {})

\* C6: when stop_camera(c) has returned (the loop ended by itself, the
\* timeout expired, or no task was registered) c has no entry in
\* active_tasks, is not in _stopping and has no subscriber
C6_StopReleasesCamera ==
    (last_call.op = "stop_camera" /\ last_call.result \in {"stopped", "timeout", "idle"})
       => /\ last_call.cam \notin DOMAIN active_tasks
          /\ last_call.cam \notin stopping
          /\ last_call.cam \in DOMAIN listeners => listeners[last_call.cam] = {}

\* a call returns after its timeout while another call of stop_camera is
\* still suspended
C6_Witness ==
    /\ last_call.op = "stop_camera"
    /\ last_call.result = "timeout"
    /\ stop_calls # <<>>

\* C7: every call of stop_camera that is suspended in wait_for is eventually
\* resumed: no task keeps a call waiting for ever
C7_StopReturns ==
    /\ [](\A k \in 1..Len(stop_calls) : stop_calls[k].task \in StopTaskIds)
    /\ \A t \in StopTaskIds :
          (\E k \in 1..Len(stop_calls) : stop_calls[k].task = t)
             ~> ~(\E k \in 1..Len(stop_calls) : stop_calls[k].task = t)

\* a call has returned on its timeout: the loop was cancelled at an await
C7_Witness ==
    /\ last_call.op = "stop_camera"
    /\ last_call.result = "timeout"
    /\ last_call.cam \notin DOMAIN active_tasks

\* C8: a start_camera(c) call made while fewer than MAX_ACTIVE_CAMERAS loops
\* run and none runs for c creates a loop for c
C8_StartCreatesLoop ==
    [][\A c \in Cams :
          (/\ StartedCamera(last_call', c)
           /\ Cardinality(RunningLoops) < MAX_ACTIVE_CAMERAS
           /\ LoopsOf(c) = {})
             => (last_call'.result = "created" /\ LoopsOf(c)' # {})]_vars

(***************************************************************************)
(* The broadcast (SpecBroadcast)                                           *)
(***************************************************************************)
EndsBroadcast(t) ==
    /\ t \in DOMAIN tasks /\ tasks[t].pc = "sending"
    /\ t \in DOMAIN tasks' /\ tasks'[t].pc = "sleep0"

BeginsBroadcast(t) ==
    /\ t \in DOMAIN tasks /\ tasks[t].pc # "sending"
    /\ t \in DOMAIN tasks' /\ tasks'[t].pc = "sending"

\* C9: the step that ends a broadcast removes from the camera's subscribers
\* the websockets whose send failed, and only them; the step that begins a
\* broadcast sends to the subscribers of that moment only, so a websocket
\* the loop removed is sent to again only if it has subscribed again
C9_DeadSubscriberEvicted ==
    /\ [][\A t \in TaskIds :
            EndsBroadcast(t) =>
               /\ SubscribersOf(tasks[t].cam)' = SubscribersOf(tasks[t].cam) \ tasks'[t].dead
               /\ SubscribersOf(tasks[t].cam)' \cap tasks'[t].dead = {}]_vars
    /\ [][\A t \in TaskIds :
            BeginsBroadcast(t) =>
               /\ tasks'[t].snapshot = SubscribersOf(tasks[t].cam)
               /\ \A w \in tasks[t].dead \cap tasks'[t].snapshot :
                     w \in SubscribersOf(tasks[t].cam)]_vars

\* a broadcast has ended with a failed send: that websocket is no subscriber
\* any more, the other one still is
C9_Witness ==
    \E t \in DOMAIN tasks :
       /\ tasks[t].pc = "sleep0"
       /\ tasks[t].dead # {}
       /\ SubscribersOf(tasks[t].cam) # {}
       /\ SubscribersOf(tasks[t].cam) \cap tasks[t].dead = {}

\* C10: a failed send ends neither the broadcast nor the loop: the loop goes
\* on to the other websockets of the snapshot, and when it yields at the end
\* of the iteration every websocket of the snapshot was sent the payload or
\* collected as dead
C10_FailureDoesNotAbort ==
    /\ [][\A t \in TaskIds :
            (/\ t \in DOMAIN tasks /\ tasks[t].pc = "sending"
             /\ t \in DOMAIN tasks' /\ tasks'[t].dead # tasks[t].dead
             /\ stop_calls' = stop_calls)
               => /\ tasks'[t].pc \in {"sending", "sleep0"}
                  /\ tasks'[t].pc = "sleep0" <=> Pending(tasks'[t]) = {}
                  /\ tasks'[t].frame_n = tasks[t].frame_n
                  /\ tasks'[t].sent = tasks[t].sent]_vars
    /\ [](\A t \in DOMAIN tasks :
            tasks[t].pc = "sleep0" =>
               /\ tasks[t].sent \cup tasks[t].dead = tasks[t].snapshot
               /\ tasks[t].sent \cap tasks[t].dead = {})

\* an iteration has ended in which one send failed and another succeeded
C10_Witness ==
    \E t \in DOMAIN tasks :
       /\ tasks[t].pc = "sleep0"
       /\ tasks[t].dead # {}
       /\ tasks[t].sent # {}
       /\ tasks[t].frame_n = MaxFrameN

\* C11: a loop drops no frame and broadcasts the frames in the order it reads
\* them: while the camera has subscribers, a step that reads frames reads
\* one, with the next index, and begins its broadcast to those subscribers;
\* each step of a broadcast sends that frame to one more websocket
C11_FramesInOrder ==
    /\ [][\A t \in TaskIds :
            (/\ t \in DOMAIN tasks /\ t \in DOMAIN tasks'
             /\ ~Finished(tasks'[t])
             /\ SubscribersOf(tasks[t].cam) # {}
             /\ tasks'[t].frame_n # tasks[t].frame_n)
               => /\ tasks'[t].frame_n = tasks[t].frame_n + 1
                  /\ tasks'[t].pc = "sending"
                  /\ tasks'[t].snapshot = SubscribersOf(tasks[t].cam)]_vars
    /\ [][\A t \in TaskIds :
            (/\ t \in DOMAIN tasks /\ tasks[t].pc = "sending"
             /\ t \in DOMAIN tasks' /\ ~Finished(tasks'[t]))
               => /\ tasks'[t].frame_n = tasks[t].frame_n
                  /\ Cardinality(tasks'[t].sent \cup tasks'[t].dead)
                        = Cardinality(tasks[t].sent \cup tasks[t].dead) + 1]_vars

\* C12: a frame that persists a record or frees the active-vehicle slot does
\* so for a consolidated text that complies with a plate format
C12_RecordOnlyForValidText ==
    [][(\/ registros' # registros
        \/ vehiculo_activo_id # None /\ vehiculo_activo_id' = None)
          => /\ Len(registros') = Len(registros) + 1
             /\ license_complies_format(registros'[Len(registros')].placa_final)]_vars

\* C12, its case: every buffered text is a result of read_license_plate, a
\* text that complies with a plate format and that format_license leaves
\* unchanged, so whatever consolidar_buffer returns for a buffer complies
C12_BufferedTextsComply ==
    \A v \in DOMAIN lecturas_ocr :
       /\ \A i \in 1..Len(lecturas_ocr[v]) :
             /\ license_complies_format(lecturas_ocr[v][i][1])
             /\ format_license(lecturas_ocr[v][i][1]) = lecturas_ocr[v][i][1]
       /\ lecturas_ocr[v] # <<>> =>
             license_complies_format(
                consolidar_buffer([i \in 1..Len(lecturas_ocr[v]) |->
                   <<lecturas_ocr[v][i][1], lecturas_ocr[v][i][2]>>]).text)

\* C13: no two persisted records are of the same tracker identity
C13_OneRecordPerVehicle ==
    \A i, j \in 1..Len(registros) :
       i # j => registros[i].id_sort_original # registros[j].id_sort_original

\* C14: a frame frees the active-vehicle slot exactly when it persists a
\* record: a frame that persists a record persists one, for the vehicle that
\* was active in it, and leaves no vehicle active and no entry of that
\* vehicle in the three dictionaries; a frame that persists none keeps the
\* active vehicle and its buffered readings
C14_ClearedWithRecord ==
    [][IF registros' # registros
       THEN /\ Len(registros') = Len(registros) + 1
            /\ SubSeq(registros', 1, Len(registros)) = registros
            /\ LET v == registros'[Len(registros')].id_sort_original
               IN /\ vehiculo_activo_id \in {None, v}
                  /\ vehiculo_activo_id' = None
                  /\ v \notin DOMAIN vehiculo_estado'
                  /\ v \notin DOMAIN lecturas_ocr'
                  /\ v \notin DOMAIN movement_history'
       ELSE vehiculo_activo_id # None
               => /\ vehiculo_activo_id' = vehiculo_activo_id
                  /\ vehiculo_activo_id \in DOMAIN vehiculo_estado'
                  /\ vehiculo_activo_id \in DOMAIN lecturas_ocr'
                  /\ Len(lecturas_ocr'[vehiculo_activo_id])
                        >= Len(lecturas_ocr[vehiculo_activo_id])]_vars

\* a vehicle activated in one frame was consolidated in the next one: its
\* record is persisted, no vehicle is active and the buffers are empty
C14_Witness ==
    /\ Len(registros) = 1
    /\ registros[1].frames_hasta_placa = 1
    /\ vehiculo_activo_id = None
    /\ lecturas_ocr = EmptyDict
    /\ vehiculo_estado = EmptyDict

C16_FailureIsNoResult ==
    /\ [][frame_nmr' # frame_nmr => excepcion' = "none"]_vars
    /\ [][excepcion' # excepcion
            => UNCHANGED <<vehiculo_activo_id, vehiculo_estado,
                           movement_history, lecturas_ocr>>]_vars

\* C17: a loop that pauses after a failed read does not go on pausing and
\* reopening the source for ever: it comes to read a frame or to end
C17_BoundedRetry ==
    \A t \in StopTaskIds, n \in 0..MaxFrameN :
       (t \in DOMAIN tasks /\ tasks[t].pc = "reconnect" /\ tasks[t].frame_n = n)
          ~> ~(t \in DOMAIN tasks /\ tasks[t].pc = "reconnect" /\ tasks[t].frame_n = n)

\* the buffer of the example: ABC123 0.90, ABC128 0.60, ABC123 0.85, XYZ999 0.95
ExampleBuffer ==
    << << <<"A", "B", "C", "1", "2", "3">>, 90 >>,
       << <<"A", "B", "C", "1", "2", "8">>, 60 >>,
       << <<"A", "B", "C", "1", "2", "3">>, 85 >>,
       << <<"X", "Y", "Z", "9", "9", "9">>, 95 >> >>

TextsOf(cluster) == [i \in 1..Len(cluster) |-> cluster[i][1]]

\* C19, as stated: consolidating the example buffer puts ABC123, ABC128 and
\* ABC123 in one cluster and XYZ999 in another
C19_ThreeReadingsOneCluster ==
    (consolidacion.done /\ consolidacion.buffer = ExampleBuffer)
       => \E i, j \in 1..Len(consolidacion.clusters) :
             /\ i # j
             /\ TextsOf(consolidacion.clusters[i]) =
                   << <<"A", "B", "C", "1", "2", "3">>, <<"A", "B", "C", "1", "2", "8">>,
                      <<"A", "B", "C", "1", "2", "3">> >>
             /\ TextsOf(consolidacion.clusters[j]) = << <<"X", "Y", "Z", "9", "9", "9">> >>

\* C19, amended: consolidating the example buffer puts the two readings
\* ABC123 in one cluster, and ABC128 and XYZ999 each in a cluster of its own
C19_ExampleClusters ==
    (consolidacion.done /\ consolidacion.buffer = ExampleBuffer)
       => /\ Len(consolidacion.clusters) = 3
          /\ TextsOf(consolidacion.clusters[1]) =
                << <<"A", "B", "C", "1", "2", "3">>, <<"A", "B", "C", "1", "2", "3">> >>
          /\ TextsOf(consolidacion.clusters[2]) = << <<"A", "B", "C", "1", "2", "8">> >>
          /\ TextsOf(consolidacion.clusters[3]) = << <<"X", "Y", "Z", "9", "9", "9">> >>

\* the example buffer was consolidated: its readings are clustered
C19_Witness ==
    /\ consolidacion.done
    /\ consolidacion.buffer = ExampleBuffer
    /\ consolidacion.clusters # <<>>

\* C20: consolidating the example buffer returns ABC123 with confidence
\* 0.875, the mean of its two occurrences, and the winning cluster is the
\* one of ABC123, not the one of XYZ999
C20_ExampleResult ==
    (consolidacion.done /\ consolidacion.buffer = ExampleBuffer)
       => /\ consolidacion.best.text = <<"A", "B", "C", "1", "2", "3">>
          /\ consolidacion.best.den = 2
          /\ consolidacion.best.num * 10 = 875 * consolidacion.best.den
          /\ \E i \in 1..Len(consolidacion.best_cluster) :
                consolidacion.best_cluster[i][1] = <<"A", "B", "C", "1", "2", "3">>
          /\ \A i \in 1..Len(consolidacion.best_cluster) :
                consolidacion.best_cluster[i][1] # <<"X", "Y", "Z", "9", "9", "9">>

\* the example buffer was consolidated and a text was returned
C20_Witness ==
    /\ consolidacion.done
    /\ consolidacion.buffer = ExampleBuffer
    /\ consolidacion.best.text # <<>>

(***************************************************************************)
(* C21: the stored box follows the tracker                                 *)
(***************************************************************************)

\* the tracks of the last completed iteration that carry identity v
ReportedFor(v) == {i \in DOMAIN last_tracks : last_tracks[i].id = v}

\* C21: after every frame in which the tracker reports a box for the active
\* identity, the stored bounding box of the active vehicle is the box the
\* tracker reported for it in that frame
C21_BoxFollowsTracker ==
    (excepcion = "none" /\ vehiculo_activo_id # None)
       => \A i \in ReportedFor(vehiculo_activo_id) :
             vehiculo_estado[vehiculo_activo_id].bbox = last_tracks[i].bbox

(***************************************************************************)
(* C22: the largest track is activated                                     *)
(***************************************************************************)

\* an iteration that got the tracker's result: it ran to its end, or the
\* plate model raised after the activation
TrackedFrame ==
    frame_nmr' = frame_nmr + 1 /\ excepcion' \in {"none", "lp_model"}

\* track i of the iteration was activated in it: it holds the slot, or its
\* record was persisted in the very frame
ActivatedNow(i) ==
    LET t == last_tracks'[i]
    IN \/ /\ vehiculo_activo_id' = t.id
          /\ vehiculo_estado'[t.id].bbox = t.bbox
          /\ vehiculo_estado'[t.id].frame_inicial = frame_nmr'
       \/ /\ vehiculo_activo_id' = None
          /\ Len(registros') = Len(registros) + 1
          /\ registros'[Len(registros')].id_sort_original = t.id
          /\ registros'[Len(registros')].frames_hasta_placa = 0

\* C22: in a frame that starts with no active vehicle and in which the
\* tracker reports tracks, a reported track whose area is at least the area
\* of every reported track is activated; with no track reported no vehicle
\* is activated
C22_LargestActivated ==
    [][(vehiculo_activo_id = None /\ TrackedFrame)
          => IF last_tracks' = <<>>
             THEN /\ vehiculo_activo_id' = None
                  /\ vehiculo_estado' = vehiculo_estado
                  /\ registros' = registros
             ELSE \E i \in DOMAIN last_tracks' :
                     /\ ActivatedNow(i)
                     /\ \A j \in DOMAIN last_tracks' :
                           (last_tracks'[i].bbox[3] - last_tracks'[i].bbox[1])
                              * (last_tracks'[i].bbox[4] - last_tracks'[i].bbox[2])
                           >= (last_tracks'[j].bbox[3] - last_tracks'[j].bbox[1])
                                 * (last_tracks'[j].bbox[4] - last_tracks'[j].bbox[2])]_vars

\* the second of two reported tracks is the larger one and holds the slot
C22_Witness ==
    /\ Len(last_tracks) = 2
    /\ Area(last_tracks[2].bbox) > Area(last_tracks[1].bbox)
    /\ vehiculo_activo_id = last_tracks[2].id
    /\ vehiculo_estado[vehiculo_activo_id].bbox = last_tracks[2].bbox
    /\ vehiculo_estado[vehiculo_activo_id].frame_inicial = frame_nmr

(***************************************************************************)
(* C23: one annotated frame for every frame read                           *)
(***************************************************************************)

\* C23: the frames written to the output are the frames read so far, one
\* annotated frame for each, in input order, also for the frames whose
\* region processing was skipped
C23_OneOutputPerFrame ==
    excepcion = "none" => out = [i \in 1..frame_nmr |-> i]

(***************************************************************************)
(* C24: a frame with an unusable box changes nothing                       *)
(***************************************************************************)

\* the box, in pixels, lies outside the frame
OutsideFrame(bbox) ==
    \/ ToInt(bbox[1]) < 0 \/ ToInt(bbox[2]) < 0
    \/ ToInt(bbox[3]) > FrameW \/ ToInt(bbox[4]) > FrameH

\* the box, in pixels, has no area: its crop is empty
NoArea(bbox) ==
    (ToInt(bbox[3]) - ToInt(bbox[1])) * (ToInt(bbox[4]) - ToInt(bbox[2])) <= 0

\* C24: a frame read while the active vehicle's box lies outside the frame
\* or has no area runs neither plate detection nor consolidation and leaves
\* the active identity, its stored state, its reading buffer and its motion
\* buffer as they were
C24_SkippedFrameKeepsState ==
    [][(/\ vehiculo_activo_id # None
        /\ frame_nmr' = frame_nmr + 1
        /\ \/ OutsideFrame(vehiculo_estado[vehiculo_activo_id].bbox)
           \/ NoArea(vehiculo_estado[vehiculo_activo_id].bbox))
          => UNCHANGED <<vehiculo_activo_id, vehiculo_estado, lecturas_ocr,
                         movement_history, registros, num_lecturas, best_conf>>]_vars

\* a frame was read while the active vehicle had a box outside the frame
C24_Witness ==
    /\ excepcion = "none"
    /\ vehiculo_activo_id # None
    /\ frame_nmr > vehiculo_estado[vehiculo_activo_id].frame_inicial
    /\ OutsideFrame(vehiculo_estado[vehiculo_activo_id].bbox)
    /\ lecturas_ocr[vehiculo_activo_id] = <<>>

(***************************************************************************)
(* C25: the motion buffer                                                  *)
(***************************************************************************)

\* the frames in which the vehicle now active was processed: the stored box
\* never changes, so with a usable box it was processed in every frame from
\* its activation on
ProcessedFrames ==
    IF BboxInvalid(vehiculo_estado[vehiculo_activo_id].bbox) THEN 0
    ELSE frame_nmr - vehiculo_estado[vehiculo_activo_id].frame_inicial + 1

\* C25: the motion buffer of the active vehicle holds one sample for each of
\* the last min(n, 30) frames in which it was processed, oldest first
C25_MotionSampled ==
    (excepcion = "none" /\ vehiculo_activo_id # None)
       => LET n == ProcessedFrames
              k == IF n < HISTORY_MAXLEN THEN n ELSE HISTORY_MAXLEN
          IN n > 0 => /\ vehiculo_activo_id \in DOMAIN movement_history
                      /\ Len(movement_history[vehiculo_activo_id]) = k
                      /\ \A i \in 1..k :
                            movement_history[vehiculo_activo_id][i][1] = frame_nmr - k + i

(***************************************************************************)
(* C26: when a record is persisted                                         *)
(***************************************************************************)

\* C26: a frame persists a record only if the reading buffer it counted
\* holds at least 7 readings and the confidence it consolidated is at least
\* 0.50; a frame that counts fewer readings, or consolidates a lower
\* confidence, leaves the vehicle active with its buffer
C26_RecordOnlyAboveThresholds ==
    [][(frame_nmr' = frame_nmr + 1 /\ excepcion' = "none")
          => IF registros' # registros
             THEN /\ num_lecturas' >= 7
                  /\ best_conf'[1] >= 50 * best_conf'[2]
             ELSE vehiculo_activo_id # None
                     => /\ vehiculo_activo_id' = vehiculo_activo_id
                        /\ vehiculo_activo_id \in DOMAIN lecturas_ocr'
                        /\ Len(lecturas_ocr'[vehiculo_activo_id])
                              >= Len(lecturas_ocr[vehiculo_activo_id])]_vars

\* a frame counted at least 7 readings, consolidated a confidence below 0.50
\* and the vehicle is still active and buffering
C26_Witness ==
    /\ vehiculo_activo_id # None
    /\ num_lecturas >= 7
    /\ num_lecturas = Len(lecturas_ocr[vehiculo_activo_id])
    /\ best_conf[1] < 50 * best_conf[2]
    /\ best_conf[1] > 0
    /\ registros = <<>>

(***************************************************************************)
(* C27: the reading buffer is append-only                                  *)
(***************************************************************************)

\* C27: while a vehicle stays active its reading buffer only grows at the
\* end: after each step the buffer before the step is a prefix of it, and
\* its length is the number of readings the frame counted, whatever it is
C27_BufferAppendOnly ==
    [][(vehiculo_activo_id # None /\ vehiculo_activo_id' = vehiculo_activo_id)
          => LET old == lecturas_ocr[vehiculo_activo_id]
                 new == lecturas_ocr'[vehiculo_activo_id]
             IN /\ Len(new) >= Len(old)
                /\ SubSeq(new, 1, Len(old)) = old
                /\ Len(new) > Len(old) => num_lecturas' = Len(new)]_vars

\* consolidation failed twice and the buffer holds more readings than the
\* consolidation threshold, those of the first frame and those of the second
C27_Witness ==
    /\ vehiculo_activo_id # None
    /\ Len(lecturas_ocr[vehiculo_activo_id]) = 2 * MaxPlates
    /\ lecturas_ocr[vehiculo_activo_id][1][3] = 1
    /\ lecturas_ocr[vehiculo_activo_id][2 * MaxPlates][3] = 2
    /\ registros = <<>>

(***************************************************************************)
(* C28, C29: the winning cluster and the text returned                     *)
(***************************************************************************)

\* the clusters are those of the greedy rule: every reading is in a cluster,
\* it is similar (ratio above 88) to the first member of its cluster and to
\* the first member of no cluster before it
GreedyClusters(clusters, normalized) ==
    /\ \A k \in 1..Len(clusters) : clusters[k] # <<>>
    /\ \A r \in Range(normalized) :
          Cardinality({i \in 1..Len(normalized) : normalized[i] = r}) =
             Cardinality({<<k, i>> \in (1..Len(clusters)) \X (1..Len(normalized)) :
                             i <= Len(clusters[k]) /\ clusters[k][i] = r})
    /\ \A k \in 1..Len(clusters) : \A i \in 1..Len(clusters[k]) :
          /\ clusters[k][i] \in Range(normalized)
          /\ RatioAbove(clusters[k][i][1], clusters[k][1][1], 88)
          /\ \A j \in 1..(k - 1) : ~RatioAbove(clusters[k][i][1], clusters[j][1][1], 88)

\* sum(confidences) + 0.2 * size of a cluster, in hundredths
ScoreOf(cluster) ==
    LET S[i \in 0..Len(cluster)] == IF i = 0 THEN 0 ELSE S[i - 1] + cluster[i][2]
    IN S[Len(cluster)] + 20 * Len(cluster)

\* C28: for every buffer, the clusters consolidar_buffer builds are those of
\* the greedy rule with threshold 88, and the cluster it selects is one of
\* them whose score sum(confidences) + 0.2 * size is maximal
C28_MaximalCluster ==
    (consolidacion.done /\ Normalized(consolidacion.buffer) # <<>>)
       => /\ GreedyClusters(consolidacion.clusters, Normalized(consolidacion.buffer))
          /\ \E k \in 1..Len(consolidacion.clusters) :
                consolidacion.best_cluster = consolidacion.clusters[k]
          /\ \A k \in 1..Len(consolidacion.clusters) :
                ScoreOf(consolidacion.best_cluster) >= ScoreOf(consolidacion.clusters[k])

\* a buffer was consolidated whose winning cluster is not the first one and
\* scores strictly more than it
C28_Witness ==
    /\ consolidacion.done
    /\ Len(consolidacion.clusters) >= 2
    /\ consolidacion.best_cluster # consolidacion.clusters[1]
    /\ ScoreOf(consolidacion.best_cluster) > ScoreOf(consolidacion.clusters[1])
    /\ Len(consolidacion.clusters[1]) >= 2

\* the number of readings of the cluster with the text
CountOf(cluster, text) == Cardinality({i \in 1..Len(cluster) : cluster[i][1] = text})

\* the sum of the confidences of the readings of the cluster with the text
SumOf(cluster, text) ==
    LET S[i \in 0..Len(cluster)] ==
           IF i = 0 THEN 0
           ELSE S[i - 1] + (IF cluster[i][1] = text THEN cluster[i][2] ELSE 0)
    IN S[Len(cluster)]

\* C29: the text returned is a most frequent text of the winning cluster,
\* among equally frequent texts the one the lexicographic order puts last,
\* whatever the order of the readings in the cluster, and the confidence
\* returned is the mean of the confidences of exactly its occurrences
C29_MostFrequentText ==
    (consolidacion.done /\ consolidacion.best_cluster # <<>>)
       => LET c == consolidacion.best_cluster
              t == consolidacion.best.text
          IN /\ CountOf(c, t) >= 1
             /\ \A i \in 1..Len(c) :
                   \/ CountOf(c, c[i][1]) < CountOf(c, t)
                   \/ CountOf(c, c[i][1]) = CountOf(c, t)
                         /\ (c[i][1] = t \/ TextLess(c[i][1], t))
             /\ consolidacion.best.den = CountOf(c, t)
             /\ consolidacion.best.num = SumOf(c, t)

\* two texts are equally frequent in the winning cluster and the text
\* returned is not the one read first
C29_Witness ==
    /\ consolidacion.done
    /\ consolidacion.best_cluster # <<>>
    /\ consolidacion.best.text # consolidacion.best_cluster[1][1]
    /\ CountOf(consolidacion.best_cluster, consolidacion.best.text) =
          CountOf(consolidacion.best_cluster, consolidacion.best_cluster[1][1])
    /\ Len(consolidacion.best_cluster) > 2

(***************************************************************************)
(* C30: the positions format_license substitutes                           *)
(***************************************************************************)

\* the text of the call in upper case without its separators: the positions
\* of the substitution are positions of this text
Stripped == SelectSeq(formatted.text, LAMBDA c : c \notin {" ", "-", "."})

\* position i of the result is the digit-like glyph of the text as a letter
ToLetter(i) ==
    Stripped[i] \in DOMAIN DICT_INT_TO_CHAR
       => formatted.result[i] = DICT_INT_TO_CHAR[Stripped[i]]

\* position i of the result is the letter-like glyph of the text as a digit
ToDigit(i) ==
    Stripped[i] \in DOMAIN DICT_CHAR_TO_INT
       => formatted.result[i] = DICT_CHAR_TO_INT[Stripped[i]]

\* C30, as stated: for a text of any length, format_license maps digit-like
\* glyphs to letters in the first three positions and letter-like glyphs to
\* digits in every position from the fourth on
C30_EveryRemainingPosition ==
    formatted.done
       => /\ Len(formatted.result) = Len(Stripped)
          /\ \A i \in 1..Len(Stripped) : IF i <= 3 THEN ToLetter(i) ELSE ToDigit(i)

\* C30, amended: format_license maps digit-like glyphs to letters in the
\* first three positions and letter-like glyphs to digits in the fourth to
\* sixth positions; it leaves every position from the seventh on, and every
\* glyph without a substitute, as it is
C30_FourthToSixthPosition ==
    formatted.done
       => /\ Len(formatted.result) = Len(Stripped)
          /\ \A i \in 1..Len(Stripped) :
                IF i <= 3
                THEN /\ ToLetter(i)
                     /\ Stripped[i] \notin DOMAIN DICT_INT_TO_CHAR
                           => formatted.result[i] = Stripped[i]
                ELSE IF i <= 6
                THEN /\ ToDigit(i)
                     /\ Stripped[i] \notin DOMAIN DICT_CHAR_TO_INT
                           => formatted.result[i] = Stripped[i]
                ELSE formatted.result[i] = Stripped[i]

\* a text of seven characters was formatted: a digit became a letter in the
\* first position, a letter a digit in the fourth, and the letter-like glyph
\* of the seventh position is still a letter
C30_Witness ==
    /\ formatted.done
    /\ Len(formatted.text) = 7
    /\ Len(formatted.result) = 7
    /\ formatted.text[1] = "0" /\ formatted.result[1] = "O"
    /\ formatted.text[4] = "O" /\ formatted.result[4] = "0"
    /\ formatted.text[7] = "O" /\ formatted.result[7] = "O"

(***************************************************************************)
(* C31: the decision table of infer_direction_from_history                 *)
(***************************************************************************)

\* the arguments of the call, as the table names them
SampleCount == Len(inferred.history)
CenterChange ==
    (inferred.history[SampleCount][3] - inferred.history[1][3]) * inferred.sign
AreaChange == inferred.history[SampleCount][2] - inferred.history[1][2]

\* C31: fewer than 6 samples give indeterminate; otherwise, with dy the change
\* of the vertical center times sign and darea the change of the area,
\* |dy| < 10 and |darea| < 1 give indeterminate, dy < 0 and darea > -1 give
\* entry, dy > 0 and darea < 1 give exit, else darea > 500 gives entry,
\* darea < -500 gives exit, else indeterminate
C31_DecisionTable ==
    inferred.done
       => IF SampleCount < 6 THEN inferred.result = "indeterminado"
          ELSE IF /\ CenterChange < 10 /\ CenterChange > 0 - 10
                  /\ AreaChange < 1 /\ AreaChange > 0 - 1
               THEN inferred.result = "indeterminado"
          ELSE IF CenterChange < 0 /\ AreaChange > 0 - 1
               THEN inferred.result = "entrada"
          ELSE IF CenterChange > 0 /\ AreaChange < 1
               THEN inferred.result = "salida"
          ELSE IF AreaChange > 500 THEN inferred.result = "entrada"
          ELSE IF AreaChange < 0 - 500 THEN inferred.result = "salida"
          ELSE inferred.result = "indeterminado"

\* the example: at least 6 samples, the first with area 1000 and center 300,
\* the last with area 1600 and center 250, sign +1, classified as entry
C31_Witness ==
    /\ inferred.done
    /\ SampleCount >= 6
    /\ inferred.sign = 1
    /\ inferred.history[1][2] = 1000 /\ inferred.history[1][3] = 300
    /\ inferred.history[SampleCount][2] = 1600
    /\ inferred.history[SampleCount][3] = 250
    /\ inferred.result = "entrada"

(***************************************************************************)
(* C32: a failed reopening                                                 *)
(***************************************************************************)

\* the step of loop t from its reconnection pause in which the source is
\* opened again, with or without success
ReopenStep(t, opened) ==
    /\ t \in DOMAIN tasks
    /\ tasks[t].pc = "reconnect"
    /\ \E skips \in 0..MaxEncodeFail, ret \in BOOLEAN : LoopRun(t, opened, skips, ret)

\* C32: one failed attempt to reopen the source after a read failure does
\* not end the loop: with no stop requested the loop is still running after
\* the attempt
C32_OneFailedReopenGoesOn ==
    [][\A t \in OneCamTasks :
          (ReopenStep(t, FALSE) /\ tasks[t].cam \notin stopping)
             => (t \in DOMAIN tasks' /\ ~Finished(tasks'[t]))]_vars

(***************************************************************************)
(* C33: a source that cannot be opened at the start                        *)
(***************************************************************************)

\* the first step of loop t, in which the source is opened, with or without
\* success
OpenStep(t, opened) ==
    /\ t \in DOMAIN tasks
    /\ tasks[t].pc = "created"
    /\ \E skips \in 0..MaxEncodeFail, ret \in BOOLEAN : LoopRun(t, opened, skips, ret)

\* loop t has ended: it reads, processes and sends nothing
Over(ts, t) == t \in DOMAIN ts => Finished(ts[t]) /\ ts[t].frame_n = 0 /\ ts[t].snapshot = {}

\* C33: the first step of a loop whose source cannot be opened ends the
\* loop: it reads no frame, leaves the state of the pipeline and the
\* subscriber sets as they are and sends nothing, and a loop that has ended
\* takes no further step
C33_UnopenedLoopEnds ==
    [][\A t \in OneCamTasks :
          /\ OpenStep(t, FALSE)
                => /\ Over(tasks', t)
                   /\ UNCHANGED pipeVars
                   /\ listeners' = listeners
          /\ (t \in DOMAIN tasks /\ Finished(tasks[t])) => Over(tasks', t)]_vars

\* a loop has ended at its start, the source not opened, while its camera
\* has a subscriber
C33_Witness ==
    \E t \in DOMAIN tasks :
       /\ tasks[t].pc = "unopened"
       /\ tasks[t].cam \in DOMAIN listeners
       /\ listeners[tasks[t].cam] # {}

(***************************************************************************)
(* C34: the stop flag is polled before every read                          *)
(***************************************************************************)

\* C34: a loop that runs while the stop flag of its camera is set never
\* reads another frame: no later step of it counts a frame, and the step it
\* takes from the top of the while loop, also after a reconnection pause,
\* ends it
C34_NoReadAfterStop ==
    [][\A t \in DOMAIN tasks :
          (tasks[t].stop_seen /\ t \in DOMAIN tasks')
             => tasks'[t].frame_n <= tasks[t].frame_n]_vars

(***************************************************************************)
(* C35: subscriptions made and removed during a broadcast                  *)
(***************************************************************************)

\* a send of the broadcast of loop t ends in this step
SendEnds(t) ==
    /\ t \in DOMAIN tasks /\ t \in DOMAIN tasks'
    /\ tasks[t].pc = "sending"
    /\ tasks'[t].pc \in {"sending", "sleep0"}
    /\ tasks'[t].sent \cup tasks'[t].dead # tasks[t].sent \cup tasks[t].dead

\* C35: the broadcast changes the subscriber set of its camera in its
\* eviction step only, and there it takes from the set as it is then (with
\* the handles subscribed and without those unsubscribed since the copy was
\* made) exactly the handles whose send failed in this broadcast, which
\* are handles of the copy
C35_NoLostUpdate ==
    [][\A t \in OneCamTasks :
          SendEnds(t) =>
             IF tasks'[t].pc = "sleep0"
             THEN /\ DOMAIN listeners' = DOMAIN listeners
                  /\ \A c \in DOMAIN listeners :
                        listeners'[c] = IF c = tasks[t].cam
                                        THEN listeners[c] \ tasks'[t].dead
                                        ELSE listeners[c]
                  /\ tasks'[t].dead \subseteq tasks[t].snapshot
             ELSE listeners' = listeners]_vars

\* a broadcast is over in which a send failed, and the set holds a handle
\* that is not in the copy the broadcast iterated
C35_Witness ==
    \E t \in OneCamTasks :
        /\ t \in DOMAIN tasks
        /\ tasks[t].pc = "sleep0"
        /\ tasks[t].dead # {}
        /\ SubscribersOf(tasks[t].cam) \ tasks[t].snapshot # {}

(***************************************************************************)
(* C36: every running loop is the registered task of its camera            *)
(***************************************************************************)

\* C36: every loop that runs is the task that active_tasks holds under the
\* camera id of the loop, so at most one loop runs per camera id
C36_RunningLoopsRegistered ==
    \A t \in RunningLoops :
        /\ tasks[t].cam \in DOMAIN active_tasks
        /\ active_tasks[tasks[t].cam] = t

(***************************************************************************)
(* C37: no payload after unregister_listener has returned                  *)
(***************************************************************************)

\* the send to w of the broadcast of loop t begins in this step: an earlier
\* send of the broadcast ends and w is the one handle of the copy left
SendBegins(t, w) ==
    /\ t \in DOMAIN tasks /\ t \in DOMAIN tasks'
    /\ tasks[t].pc = "sending" /\ tasks'[t].pc = "sending"
    /\ Pending(tasks[t]) # {w}
    /\ Pending(tasks'[t]) = {w}

\* C37: no send of a payload of camera c to w begins while w is out of the
\* subscriber set of c, where unregister_listener(c, w) has left it: a
\* handle of the copy of a running broadcast that is not in the set was
\* unregistered after the copy was made and has not subscribed again
C37_NoSendAfterUnsubscribe ==
    [][\A t \in OneCamTasks, w \in Handles :
          SendBegins(t, w) => w \in SubscribersOf(tasks[t].cam)]_vars

(***************************************************************************)
(* The clients of /ws/camara-directa (SpecDirecta)                         *)
(***************************************************************************)

\* the open connections that asked for the URL of camera c
ClientsOf(c) == {w \in Handles : <<c, w>> \in clients}

\* websocket_camara_directa, api/app.py lines 82-107 and 140-142: the
\* connection is accepted, its first message has type camera_url, cam_id is
\* hash(url) % 1000000, the same for the same URL, and start_camera is
\* called with the websocket; the handler then waits for messages.  When
\* start_camera raises (line 37) the handler goes to its finally clause
\* (150-157), which calls stop_camera
CamaraDirectaUrl(c, w) ==
    /\ \A d \in Cams : <<d, w>> \notin clients
    /\ IF AtCapacity
       THEN /\ stop_camera(c)
            /\ UNCHANGED clients
       ELSE /\ start_camera(c, w)
            /\ clients' = clients \cup {<<c, w>>}

\* websocket_camara_directa, lines 143-144 and 152-157: the client of a
\* camera URL disconnects; the finally clause calls stop_camera(cam_id) and
\* waits in it
CamaraDirectaDisconnect(c, w) ==
    /\ <<c, w>> \in clients
    /\ stop_camera(c)
    /\ clients' = clients \ {<<c, w>>}

\* the clients of one camera URL come and go while the loop of the camera
\* broadcasts; register_listener is called for the first of them or not,
\* and one client at a time disconnects
NextDirecta ==
    \/ \E c \in OneCam, w \in Handles : MayStart(c) /\ CamaraDirectaUrl(c, w)
    \/ \E c \in OneCam, w \in Handles : stop_calls = <<>> /\ CamaraDirectaDisconnect(c, w)
    \/ \E k \in Slots : StopTimeout(k)
    \/ \E k \in Slots : StopResume(k)
    \/ \E c \in OneCam, w \in OneHandle : RegisterListener(c, w)
    \/ \E t \in OneCamTasks, opened \in BOOLEAN, skips \in 0..MaxEncodeFail, ret \in BOOLEAN :
          LoopRun(t, opened, skips, ret)
    \/ \E t \in OneCamTasks, w \in OneHandle, ok \in BOOLEAN : LoopSend(t, w, ok)

SpecDirecta == Init /\ [][NextDirecta]_vars

(***************************************************************************)
(* C38: start_camera subscribes nobody                                     *)
(***************************************************************************)

\* the subscribers of camera c after the step
SubscribersAfter(c) == IF c \in DOMAIN listeners' THEN listeners'[c] ELSE {}

\* the step is the call start_camera(c, url, w) of the handler of w
StartsFor(c, w) == ~AtCapacity /\ CamaraDirectaUrl(c, w)

\* C38: the call of start_camera that the handler of /ws/camara-directa
\* makes with its websocket changes active_tasks and creates the task
\* registered there, and nothing else: no subscriber set, no stop flag, no
\* other task; and a websocket comes into a subscriber set only in a step
\* that is a call of register_listener for it
C38_StartSubscribesNobody ==
    [][/\ \A c \in OneCam, w \in Handles :
             StartsFor(c, w) =>
                /\ listeners' = listeners
                /\ stopping' = stopping /\ stop_calls' = stop_calls
                /\ \A t \in DOMAIN tasks : t \in DOMAIN tasks' /\ tasks'[t] = tasks[t]
                /\ DOMAIN tasks' \ DOMAIN tasks \subseteq {active_tasks'[c]}
                /\ UNCHANGED pipeVars
       /\ \A c \in OneCam, w \in Handles :
             (w \in SubscribersAfter(c) /\ w \notin SubscribersOf(c))
                => last_call' = Call("register_listener", c, w, "added")]_vars

\* a client asked for the URL of a camera, the loop of the camera is
\* sending a frame to its subscribers, and the client is none of them
C38_Witness ==
    \E c \in OneCam, w \in Handles :
        /\ <<c, w>> \in clients
        /\ c \in DOMAIN active_tasks
        /\ tasks[active_tasks[c]].pc = "sending"
        /\ w \notin tasks[active_tasks[c]].snapshot
        /\ w \notin SubscribersOf(c)

(***************************************************************************)
(* C39: the loop of a URL that several clients asked for                   *)
(***************************************************************************)

\* the loop t ends in this step because its camera is being stopped: it
\* finds the stop flag at the top of its while loop with its source open,
\* or wait_for cancels it
EndsByStop(t) ==
    /\ t \in DOMAIN tasks /\ ~Finished(tasks[t])
    /\ t \in DOMAIN tasks' => Finished(tasks'[t])
    /\ \/ \E skips \in 0..MaxEncodeFail, ret \in BOOLEAN : LoopRun(t, TRUE, skips, ret)
       \/ \E k \in Slots : StopTimeout(k)

\* C39: while a client connection that asked for the URL of camera c is
\* open, no loop of c is ended by a stop
C39_LoopOutlivesOneClient ==
    [][\A t \in OneCamTasks : EndsByStop(t) => ClientsOf(tasks[t].cam) = {}]_vars

(***************************************************************************)
(* Two cameras side by side (SpecTwoCams)                                  *)
(***************************************************************************)

TwoCamTasks == SharedCams \X (1..(MaxLoops + MaxStopCalls))

\* two cameras are started and stopped, one stop_camera call at a time,
\* while their loops broadcast to a subscriber that comes and goes
NextTwoCams ==
    \/ \E c \in SharedCams : LoopsOf(c) = {} /\ StartCamera(c)
    \/ \E c \in SharedCams : stop_calls = <<>> /\ StopCamera(c)
    \/ \E k \in Slots : StopTimeout(k)
    \/ \E k \in Slots : StopResume(k)
    \/ \E c \in SharedCams, w \in OneHandle : RegisterListener(c, w)
    \/ \E c \in SharedCams, w \in OneHandle : UnregisterListener(c, w)
    \/ \E t \in TwoCamTasks, opened \in BOOLEAN, skips \in 0..MaxEncodeFail, ret \in BOOLEAN :
          LoopRun(t, opened, skips, ret)
    \/ \E t \in TwoCamTasks, w \in OneHandle, ok \in BOOLEAN : LoopSend(t, w, ok)

SpecTwoCams == Init /\ [][NextTwoCams]_vars

(***************************************************************************)
(* C40: operations on one camera leave the others alone                    *)
(***************************************************************************)

\* the step is an operation on camera c: a call of start_camera,
\* stop_camera (to its await, its timeout or its resumption),
\* register_listener or unregister_listener for c, or a step of a loop of c
OnCamera(c) ==
    \/ StartCamera(c)
    \/ StopCamera(c)
    \/ \E k \in Slots :
          /\ k <= Len(stop_calls) /\ stop_calls[k].cam = c
          /\ StopTimeout(k) \/ StopResume(k)
    \/ \E w \in OneHandle : RegisterListener(c, w) \/ UnregisterListener(c, w)
    \/ \E t \in TwoCamTasks :
          /\ t \in DOMAIN tasks /\ tasks[t].cam = c
          /\ \/ \E opened \in BOOLEAN, skips \in 0..MaxEncodeFail, ret \in BOOLEAN :
                   LoopRun(t, opened, skips, ret)
             \/ \E w \in OneHandle, ok \in BOOLEAN : LoopSend(t, w, ok)

\* the step changes neither the registered task, nor the stop flag, nor
\* the subscriber set of camera d
Untouched(d) ==
    /\ d \in DOMAIN active_tasks' <=> d \in DOMAIN active_tasks
    /\ d \in DOMAIN active_tasks => active_tasks'[d] = active_tasks[d]
    /\ d \in stopping' <=> d \in stopping
    /\ d \in DOMAIN listeners' <=> d \in DOMAIN listeners
    /\ d \in DOMAIN listeners => listeners'[d] = listeners[d]

\* C40: an operation on camera c changes neither the registered task, nor
\* the stop flag, nor the subscriber set of any other camera
C40_OtherCamerasUntouched ==
    [][\A c \in SharedCams :
          OnCamera(c) => \A d \in SharedCams \ {c} : Untouched(d)]_vars

\* a stop_camera call of one camera has returned, having popped its entries,
\* while the loop of the other camera, registered, sends to its subscriber
C40_Witness ==
    \E c \in SharedCams, d \in SharedCams :
        /\ c # d
        /\ last_call = Call("stop_camera", c, 0, "stopped")
        /\ d \in DOMAIN active_tasks
        /\ tasks[active_tasks[d]].pc = "sending"
        /\ SubscribersOf(d) # {}

====
